---- MODULE Spec2Model ----
(***************************************************************************)
(* A model of trendwatcher's analytical core: the weekly history store     *)
(* (store/jsonl_store.py), the cluster engine                              *)
(* (extract/extract_trends.py, extract/entity_extractor.py) and the        *)
(* scorer of the export (score/trend_scorer.py, score/components).         *)
(*                                                                         *)
(* Python strings are TLA+ strings; a character is a string of length 1,   *)
(* read with SubSeq.  Python's None is the string "None", which is not a   *)
(* week identifier, a label or a country of the model.                     *)
(***************************************************************************)
EXTENDS Integers, Sequences, FiniteSets, TLC

VARIABLES
    trends_file,     \* data/processed/trends.json: [exists, json]
    history_dir,     \* data/history: file name -> sequence of lines
    last_call,       \* the HistoryStore call made last: [op, week, label]
    history_result,  \* what the last load_history call returned
    history_map,     \* what the last load_all_histories call returned
    w_pc,            \* snapshot in steps: "idle", "open", "writing"
    w_week,          \* its week identifier
    w_trends,        \* the trends array it read from trends.json
    w_idx,           \* the index of the next trend it writes
    w_buf,           \* lines written to the file object and not yet on disk
    r_pc,            \* a loader in steps: "idle", "reading"
    r_call,          \* the load it runs: [op, label]
    r_files,         \* the sorted file list it iterates
    r_idx,           \* the index of the next file it reads
    r_entries,       \* the entries it has collected
    r_obs,           \* what it read from a file that a snapshot was writing
    docs_in,         \* data/raw/docs.jsonl: the parsed lines
    rows,            \* cluster_queries: its argument, the rows it annotates
    hash_seed,       \* the hash seed of the process, which orders its sets
    cq_pc,           \* "idle", "collect", "merge", "build", "done", "exported"
    cq_i,            \* the index the running loop is at
    agg,             \* agg: key -> rows, in insertion order
    clusters,        \* clusters: sequence of [label, members]
    out,             \* out: the TrendClusters
    first_run,       \* what the first of two process runs returned
    score_call       \* the last call of a scoring or filter function: its
                     \* name, its arguments and what it returned

storeVars == <<trends_file, history_dir, last_call, history_result, history_map>>

concVars == <<w_pc, w_week, w_trends, w_idx, w_buf, r_pc, r_call, r_files, r_idx, r_entries, r_obs>>

clusterVars == <<docs_in, rows, hash_seed, cq_pc, cq_i, agg, clusters, out, first_run>>

scoreVars == <<score_call>>

vars == <<storeVars, concVars, clusterVars, scoreVars>>

\* What the sequential store leaves alone.
notStoreVars == <<concVars, clusterVars, scoreVars>>

None == "None"

-----------------------------------------------------------------------------
(* Strings                                                                 *)

\* The characters of the model in code point order (Python compares strings
\* by code point).
CodePoints == " !'-./0123456789:ABCDEFGHIJKLMNOPQRSTUVWXYZ_abcdefghijklmnopqrstuvwxyz"

Char(s, i) == SubSeq(s, i, i)

Ord(c) == CHOOSE i \in 1..Len(CodePoints) : Char(CodePoints, i) = c

\* a < b for Python strings.
RECURSIVE StrLess(_, _)
StrLess(a, b) ==
    IF Len(b) = 0 THEN FALSE
    ELSE IF Len(a) = 0 THEN TRUE
    ELSE IF Head(a) = Head(b) THEN StrLess(Tail(a), Tail(b))
    ELSE Ord(Head(a)) < Ord(Head(b))

StrLeq(a, b) == a = b \/ StrLess(a, b)

\* sorted(S) for a set of strings.
RECURSIVE SortedStrings(_)
SortedStrings(S) ==
    IF S = {} THEN <<>>
    ELSE LET m == CHOOSE x \in S : \A y \in S : StrLeq(x, y)
         IN  <<m>> \o SortedStrings(S \ {m})

\* dict.get(key, default) on a dict modelled as a function.
DictGet(d, k, default) == IF k \in DOMAIN d THEN d[k] ELSE default

-----------------------------------------------------------------------------
(* Bounds and inputs of the history store                                  *)

\* Longest trends.json array the store is run on.
MaxTrends == 2

\* Trend objects of trends.json: one as export_clusters writes it, one with
\* only the mandatory key, one whose label is the empty string.
TrendDicts ==
    { [trend |-> "miso", score |-> 12, score_breakdown |-> "bd", countries |-> <<"NL", "US">>,
       raw_count |-> 3, entity_type |-> "ingredient_variety"],
      [trend |-> "tahini"],
      [trend |-> "", raw_count |-> 1] }

\* The sequences of at most n elements of S.
RECURSIVE SeqsUpTo(_, _)
SeqsUpTo(S, n) ==
    IF n = 0 THEN {<<>>}
    ELSE LET shorter == SeqsUpTo(S, n - 1)
         IN  shorter \cup {Append(s, x) : s \in {t \in shorter : Len(t) = n - 1}, x \in S}

\* The arrays trends.json holds: no trend twice, as an extraction run writes it.
TrendsFiles ==
    {s \in SeqsUpTo(TrendDicts, MaxTrends) : \A i, j \in 1..Len(s) : s[i] = s[j] => i = j}

\* Week identifiers passed to snapshot; None asks for the current week.
WeekArgs == {None, "2026_w9"}

\* datetime.now() as (year, week of year).
Clock == {<<2026, 10>>}

\* Labels load_history is asked for.
Labels == {"", "miso", "tahini", "ponzu"}

-----------------------------------------------------------------------------
(* store/jsonl_store.py                                                    *)

Digit(d) == Char("0123456789", d + 1)

\* now.strftime("%Y_w%U"): four-digit year, "_w", two-digit week of year.
strftime(now) ==
    LET y == now[1]
        u == now[2]
    IN  Digit(y \div 1000) \o Digit((y \div 100) % 10) \o Digit((y \div 10) % 10) \o Digit(y % 10)
        \o "_w" \o Digit(u \div 10) \o Digit(u % 10)

\* Mutant: one snapshot file for every week.
snapshot_file_latest(week) == "trends_latest.jsonl"

\* history_dir / f"trends_{week}.jsonl"
snapshot_file(week) == "trends_" \o week \o ".jsonl"

\* The dict snapshot() builds for one trend of trends.json.
snapshot_entry(week, t) ==
    [week |-> week,
     trend |-> t["trend"],
     score |-> DictGet(t, "score", 0),
     score_breakdown |-> DictGet(t, "score_breakdown", "{}"),
     countries |-> DictGet(t, "countries", <<>>),
     raw_count |-> DictGet(t, "raw_count", 0),
     entity_type |-> DictGet(t, "entity_type", None)]

\* json.dumps(entry) + "\n": one complete line of a snapshot file.  The rows
\* are JSON values read from trends.json, which json.dumps/json.loads round-trip.
JsonLine(entry) == [kind |-> "json", val |-> entry]

\* json.loads(line) succeeds on a complete line only.
JsonOk(line) == line.kind = "json"

\* The lines snapshot() writes for a trends array.
SnapshotLines(week, trends) == [i \in 1..Len(trends) |-> JsonLine(snapshot_entry(week, trends[i]))]

\* open(snapshot_file, "w") ... write every line ... close.
OverwriteFile(dir, name, lines) == (name :> lines) @@ dir

\* history_dir.glob("trends_*.jsonl"), sorted.
SortedSnapshotFiles(dir) == SortedStrings(DOMAIN dir)

\* The parsed entries of one file, in line order; unparseable lines skipped.
RECURSIVE ParsedLines(_)
ParsedLines(lines) ==
    IF lines = <<>> THEN <<>>
    ELSE (IF JsonOk(Head(lines)) THEN <<Head(lines).val>> ELSE <<>>) \o ParsedLines(Tail(lines))

\* Every parsed entry of every file of a list of files, in file order.
RECURSIVE EntriesOf(_, _)
EntriesOf(dir, files) ==
    IF files = <<>> THEN <<>>
    ELSE ParsedLines(dir[Head(files)]) \o EntriesOf(dir, Tail(files))

\* sorted(history, key=week): stable insertion of x after every entry whose
\* week is not greater.
RECURSIVE InsertByWeek(_, _)
InsertByWeek(sorted, x) ==
    IF sorted = <<>> THEN <<x>>
    ELSE IF StrLess(x.week, Head(sorted).week) THEN <<x>> \o sorted
    ELSE <<Head(sorted)>> \o InsertByWeek(Tail(sorted), x)

\* Mutant: the history sorted by descending week.
RECURSIVE SortedByWeek_reverse(_)
SortedByWeek_reverse(h) ==
    IF h = <<>> THEN <<>>
    ELSE LET x == h[Len(h)]
             rest == SortedByWeek_reverse(SubSeq(h, 1, Len(h) - 1))
             before == SelectSeq(rest, LAMBDA e : ~StrLess(e.week, x.week))
             after == SelectSeq(rest, LAMBDA e : StrLess(e.week, x.week))
         IN  before \o <<x>> \o after

RECURSIVE SortedByWeek(_)
SortedByWeek(h) ==
    IF h = <<>> THEN <<>>
    ELSE InsertByWeek(SortedByWeek(SubSeq(h, 1, Len(h) - 1)), h[Len(h)])

\* HistoryStore.load_history(trend_label)
load_history(dir, trend_label) ==
    LET all == EntriesOf(dir, SortedSnapshotFiles(dir))
        history == SelectSeq(all, LAMBDA e : e.trend = trend_label)
    IN  SortedByWeek(history)

\* Python truthiness of a label read from a row.
Truthy(label) == label # "" /\ label # None

\* HistoryStore.load_all_histories(): label -> history, for the labels seen.
load_all_histories(dir) ==
    LET all == EntriesOf(dir, SortedSnapshotFiles(dir))
        kept == SelectSeq(all, LAMBDA e : Truthy(e.trend))
        labels == {kept[i].trend : i \in 1..Len(kept)}
    IN  [l \in labels |-> SortedByWeek(SelectSeq(kept, LAMBDA e : e.trend = l))]

\* A line whose bytes are no UTF-8: snapshot writes the labels as they are
\* (ensure_ascii=False), and the line was cut inside a character.
Undecodable(line) == [kind |-> "undecodable", val |-> line.val]

\* snapshot_file.read_text(encoding="utf-8") raises UnicodeDecodeError: a
\* file of the directory holds a line that is no UTF-8, and the read is
\* outside the try.
ReadRaises(dir) == \E f \in DOMAIN dir : \E i \in 1..Len(dir[f]) : dir[f][i].kind = "undecodable"

\* What load_history(trend_label) gives on a directory of any lines: a
\* UnicodeDecodeError or the history.
HistoryOutcome(dir, trend_label) ==
    IF ReadRaises(dir) THEN [raised |-> TRUE]
    ELSE [raised |-> FALSE, rows |-> load_history(dir, trend_label)]

\* What load_all_histories() gives on a directory of any lines.
AllHistoriesOutcome(dir) ==
    IF ReadRaises(dir) THEN [raised |-> TRUE]
    ELSE [raised |-> FALSE, map |-> load_all_histories(dir)]

-----------------------------------------------------------------------------
(* The store, one action per call                                          *)

NoCall == [op |-> "none", week |-> None, label |-> None]

NoObs == [read |-> FALSE, rows |-> <<>>, full |-> <<>>]

ConcIdle ==
    /\ w_pc = "idle"
    /\ w_week = None
    /\ w_trends = <<>>
    /\ w_idx = 0
    /\ w_buf = <<>>
    /\ r_pc = "idle"
    /\ r_call = [op |-> "none", label |-> None]
    /\ r_files = <<>>
    /\ r_idx = 0
    /\ r_entries = <<>>
    /\ r_obs = NoObs

\* No extraction run is in progress.
NoRun == [has |-> FALSE, out |-> <<>>]

\* No scoring function has been called.
NoScoreCall == [op |-> "none"]

ClusterIdle ==
    /\ docs_in = <<>>
    /\ rows = <<>>
    /\ hash_seed = 0
    /\ cq_pc = "idle"
    /\ cq_i = 0
    /\ agg = <<>>
    /\ clusters = <<>>
    /\ out = <<>>
    /\ first_run = NoRun
    /\ score_call = NoScoreCall

Init ==
    /\ trends_file = [exists |-> FALSE, json |-> <<>>]
    /\ history_dir = <<>>
    /\ last_call = NoCall
    /\ history_result = <<>>
    /\ history_map = <<>>
    /\ ConcIdle
    /\ ClusterIdle

\* An extraction run writes trends.json (export_clusters).
WriteTrends ==
    /\ \E trends \in TrendsFiles : trends_file' = [exists |-> TRUE, json |-> trends]
    /\ last_call' = [op |-> "write_trends", week |-> None, label |-> None]
    /\ history_result' = <<>>
    /\ history_map' = <<>>
    /\ UNCHANGED <<history_dir, notStoreVars>>

\* HistoryStore.snapshot(week)
Snapshot(weekArg, now) ==
    LET week == IF weekArg = None THEN strftime(now) ELSE weekArg
    IN  /\ last_call' = [op |-> "snapshot", week |-> week, label |-> None]
        /\ history_result' = <<>>
        /\ history_map' = <<>>
        /\ UNCHANGED <<trends_file, notStoreVars>>
        /\ IF ~trends_file.exists
           THEN UNCHANGED history_dir
           ELSE history_dir' = OverwriteFile(history_dir, snapshot_file(week),
                                             SnapshotLines(week, trends_file.json))

\* HistoryStore.load_history(trend_label)
LoadHistory(label) ==
    /\ history_result' = load_history(history_dir, label)
    /\ last_call' = [op |-> "load_history", week |-> None, label |-> label]
    /\ history_map' = <<>>
    /\ UNCHANGED <<trends_file, history_dir, notStoreVars>>

\* HistoryStore.load_all_histories()
LoadAllHistories ==
    /\ history_map' = load_all_histories(history_dir)
    /\ last_call' = [op |-> "load_all_histories", week |-> None, label |-> None]
    /\ history_result' = <<>>
    /\ UNCHANGED <<trends_file, history_dir, notStoreVars>>

Next ==
    \/ WriteTrends
    \/ \E weekArg \in WeekArgs, now \in Clock : Snapshot(weekArg, now)
    \/ \E label \in Labels : LoadHistory(label)
    \/ LoadAllHistories

Spec == Init /\ [][Next]_vars

-----------------------------------------------------------------------------
(* snapshot and the loaders in steps: a report or delivery collaborator    *)
(* loads the history while an extraction run snapshots.  One writer (the   *)
(* store assumes a single writer per run), one reader.                     *)

\* The file's lines without a torn last line.
WholeLines(lines) ==
    IF lines # <<>> /\ ~JsonOk(lines[Len(lines)]) THEN SubSeq(lines, 1, Len(lines) - 1) ELSE lines

Torn(line) == [kind |-> "torn", val |-> line.val]

InitConc ==
    /\ \/ trends_file = [exists |-> FALSE, json |-> <<>>]
       \/ \E trends \in TrendsFiles : trends_file = [exists |-> TRUE, json |-> trends]
    /\ history_dir = <<>>
    /\ last_call = NoCall
    /\ history_result = <<>>
    /\ history_map = <<>>
    /\ ConcIdle
    /\ ClusterIdle

\* snapshot, lines 45-55: the week, the early return, json.loads(trends.json).
SnapBegin(weekArg, now) ==
    /\ w_pc = "idle"
    /\ w_week' = (IF weekArg = None THEN strftime(now) ELSE weekArg)
    /\ IF ~trends_file.exists
       THEN UNCHANGED <<w_pc, w_trends>>
       ELSE w_pc' = "open" /\ w_trends' = trends_file.json
    /\ UNCHANGED <<scoreVars, clusterVars, storeVars, w_idx, w_buf, r_pc, r_call, r_files, r_idx, r_entries, r_obs>>

\* snapshot, line 61: open(snapshot_file, "w") creates or truncates the file.
SnapOpen ==
    /\ w_pc = "open"
    /\ history_dir' = OverwriteFile(history_dir, snapshot_file(w_week), <<>>)
    /\ w_pc' = "writing"
    /\ w_idx' = 1
    /\ w_buf' = <<>>
    /\ UNCHANGED <<scoreVars, clusterVars, trends_file, last_call, history_result, history_map, w_week, w_trends,
                   r_pc, r_call, r_files, r_idx, r_entries, r_obs>>

\* snapshot, lines 62-72: f.write of one line goes to the file object's buffer.
SnapWrite ==
    /\ w_pc = "writing"
    /\ w_idx <= Len(w_trends)
    /\ w_buf' = Append(w_buf, JsonLine(snapshot_entry(w_week, w_trends[w_idx])))
    /\ w_idx' = w_idx + 1
    /\ UNCHANGED <<scoreVars, clusterVars, storeVars, w_pc, w_week, w_trends, r_pc, r_call, r_files, r_idx, r_entries, r_obs>>

\* The file object writes its buffer out when it is full, wherever in the
\* text that is: k buffered lines reach the disk, the last of them in part
\* when torn.  A line torn before is completed first.
SnapFlush(k, torn) ==
    /\ w_pc = "writing"
    /\ k \in 1..Len(w_buf)
    /\ LET f == snapshot_file(w_week)
           moved == [i \in 1..k |-> IF i = k /\ torn THEN Torn(w_buf[i]) ELSE w_buf[i]]
       IN  /\ history_dir' = [history_dir EXCEPT ![f] = WholeLines(@) \o moved]
           /\ w_buf' = SubSeq(w_buf, IF torn THEN k ELSE k + 1, Len(w_buf))
    /\ UNCHANGED <<scoreVars, clusterVars, trends_file, last_call, history_result, history_map, w_pc, w_week, w_trends,
                   w_idx, r_pc, r_call, r_files, r_idx, r_entries, r_obs>>

\* snapshot, leaving the with block: the rest of the buffer is written, the
\* file closed.
SnapClose ==
    /\ w_pc = "writing"
    /\ w_idx > Len(w_trends)
    /\ history_dir' = [history_dir EXCEPT ![snapshot_file(w_week)] = WholeLines(@) \o w_buf]
    /\ w_pc' = "idle"
    /\ w_buf' = <<>>
    /\ w_idx' = 0
    /\ w_trends' = <<>>
    /\ UNCHANGED <<scoreVars, clusterVars, trends_file, last_call, history_result, history_map, w_week,
                   r_pc, r_call, r_files, r_idx, r_entries, r_obs>>

\* load_history line 88, load_all_histories line 108: the sorted glob.
LoadBegin(op, label) ==
    /\ r_pc = "idle"
    /\ r_call' = [op |-> op, label |-> label]
    /\ r_files' = SortedSnapshotFiles(history_dir)
    /\ r_idx' = 1
    /\ r_entries' = <<>>
    /\ r_obs' = NoObs
    /\ r_pc' = "reading"
    /\ UNCHANGED <<scoreVars, clusterVars, storeVars, w_pc, w_week, w_trends, w_idx, w_buf>>

\* One iteration of the loop over the files: read_text, splitlines, and per
\* line json.loads and the label test.
LoadReadFile ==
    /\ r_pc = "reading"
    /\ r_idx <= Len(r_files)
    /\ LET f == r_files[r_idx]
           parsed == ParsedLines(history_dir[f])
           kept == IF r_call.op = "load_history"
                   THEN SelectSeq(parsed, LAMBDA e : e.trend = r_call.label)
                   ELSE SelectSeq(parsed, LAMBDA e : Truthy(e.trend))
       IN  /\ r_entries' = r_entries \o kept
           /\ r_obs' = IF w_pc = "writing" /\ f = snapshot_file(w_week)
                       THEN [read |-> TRUE, rows |-> parsed,
                             full |-> ParsedLines(SnapshotLines(w_week, w_trends))]
                       ELSE r_obs
    /\ r_idx' = r_idx + 1
    /\ UNCHANGED <<scoreVars, clusterVars, storeVars, w_pc, w_week, w_trends, w_idx, w_buf, r_pc, r_call, r_files>>

\* load_history line 97, load_all_histories lines 119-122: sort and return.
LoadReturn ==
    /\ r_pc = "reading"
    /\ r_idx > Len(r_files)
    /\ IF r_call.op = "load_history"
       THEN /\ history_result' = SortedByWeek(r_entries)
            /\ history_map' = <<>>
       ELSE /\ history_map' =
                   [l \in {r_entries[i].trend : i \in 1..Len(r_entries)} |->
                       SortedByWeek(SelectSeq(r_entries, LAMBDA e : e.trend = l))]
            /\ history_result' = <<>>
    /\ last_call' = [op |-> r_call.op, week |-> None, label |-> r_call.label]
    /\ r_pc' = "idle"
    /\ r_files' = <<>>
    /\ r_idx' = 0
    /\ r_entries' = <<>>
    /\ UNCHANGED <<scoreVars, clusterVars, trends_file, history_dir, w_pc, w_week, w_trends, w_idx, w_buf, r_call, r_obs>>

NextConc ==
    \/ \E weekArg \in WeekArgs, now \in Clock : SnapBegin(weekArg, now)
    \/ SnapOpen
    \/ SnapWrite
    \/ \E k \in 1..MaxTrends, torn \in BOOLEAN : SnapFlush(k, torn)
    \/ SnapClose
    \/ \E label \in Labels : LoadBegin("load_history", label)
    \/ LoadBegin("load_all_histories", None)
    \/ LoadReadFile
    \/ LoadReturn

SpecConc == InitConc /\ [][NextConc]_vars

\* C2: a loader running while snapshot(N) writes sees, in that call, none of
\* the rows the snapshot writes or all of them.
C2_NoPartialSnapshotRead ==
    r_obs.read => (r_obs.rows = <<>> \/ r_obs.rows = r_obs.full)

-----------------------------------------------------------------------------
(* Python str and re, as far as the cluster engine uses them               *)

Digits == "0123456789"
Lowers == "abcdefghijklmnopqrstuvwxyz"
Uppers == "ABCDEFGHIJKLMNOPQRSTUVWXYZ"
Whitespace == " "
\* \w of re: letters, digits, underscore.  The text of the model is ASCII:
\* the letters with diacritics that normalize() and the local-intent pattern
\* name, and the curated terms spelled with them, match nothing in it and
\* are left out.
WordChars == Digits \o Lowers \o Uppers \o "_"

InStr(c, chars) == \E i \in 1..Len(chars) : Char(chars, i) = c

Min(a, b) == IF a <= b THEN a ELSE b
Max(a, b) == IF a >= b THEN a ELSE b

\* sub in s
Contains(s, sub) == \E i \in 1..(Len(s) - Len(sub) + 1) : SubSeq(s, i, i + Len(sub) - 1) = sub

LowerChar(c) ==
    IF InStr(c, Uppers) THEN Char(Lowers, CHOOSE i \in 1..Len(Uppers) : Char(Uppers, i) = c) ELSE c

\* s.lower()
RECURSIVE Lower(_)
Lower(s) == IF s = "" THEN "" ELSE LowerChar(Head(s)) \o Lower(Tail(s))

\* s.lstrip(chars), s.rstrip(chars), s.strip(chars)
RECURSIVE LStrip(_, _)
LStrip(s, chars) == IF s # "" /\ InStr(Head(s), chars) THEN LStrip(Tail(s), chars) ELSE s

RECURSIVE RStrip(_, _)
RStrip(s, chars) ==
    IF s # "" /\ InStr(Char(s, Len(s)), chars) THEN RStrip(SubSeq(s, 1, Len(s) - 1), chars) ELSE s

StripChars(s, chars) == RStrip(LStrip(s, chars), chars)

\* s.strip()
Strip(s) == StripChars(s, Whitespace)

\* s.replace(old, new): the occurrences of old from left to right, not overlapping.
RECURSIVE Replace(_, _, _)
Replace(s, old, new) ==
    IF Len(s) < Len(old) THEN s
    ELSE IF SubSeq(s, 1, Len(old)) = old
         THEN new \o Replace(SubSeq(s, Len(old) + 1, Len(s)), old, new)
         ELSE Head(s) \o Replace(Tail(s), old, new)

\* s.split(): the maximal runs of characters that are not whitespace.
RECURSIVE Split(_)
Split(s) ==
    LET t == LStrip(s, Whitespace)
        n == IF \E i \in 1..Len(t) : InStr(Char(t, i), Whitespace)
             THEN (CHOOSE i \in 1..Len(t) :
                      /\ InStr(Char(t, i), Whitespace)
                      /\ \A j \in 1..(i - 1) : ~InStr(Char(t, j), Whitespace)) - 1
             ELSE Len(t)
    IN  IF t = "" THEN <<>> ELSE <<SubSeq(t, 1, n)>> \o Split(SubSeq(t, n + 1, Len(t)))

\* " ".join(tokens)
RECURSIVE Join(_)
Join(tokens) ==
    IF tokens = <<>> THEN ""
    ELSE IF Len(tokens) = 1 THEN tokens[1]
    ELSE tokens[1] \o " " \o Join(Tail(tokens))

\* re.sub(r"\s+", " ", s)
RECURSIVE CollapseWhitespace(_)
CollapseWhitespace(s) ==
    IF s = "" THEN ""
    ELSE IF InStr(Head(s), Whitespace)
         THEN " " \o CollapseWhitespace(LStrip(s, Whitespace))
         ELSE Head(s) \o CollapseWhitespace(Tail(s))

\* re.sub(r"[^...]", "", s) for the characters to keep.
RECURSIVE KeepChars(_, _)
KeepChars(s, chars) ==
    IF s = "" THEN ""
    ELSE (IF InStr(Head(s), chars) THEN Head(s) ELSE "") \o KeepChars(Tail(s), chars)

\* A regular expression is a sequence of atoms: a choice of literal strings,
\* a character class repeated min..max times, ^, $ or \b.
Unbounded == 1000
Lit(alts) == [k |-> "lit", alts |-> alts, cls |-> "", min |-> 0, max |-> 0]
Cls(chars, lo, hi) == [k |-> "cls", alts |-> {}, cls |-> chars, min |-> lo, max |-> hi]
Bol == [k |-> "bol", alts |-> {}, cls |-> "", min |-> 0, max |-> 0]
Eol == [k |-> "eol", alts |-> {}, cls |-> "", min |-> 0, max |-> 0]
Wb == [k |-> "wb", alts |-> {}, cls |-> "", min |-> 0, max |-> 0]

IsWordAt(s, i) == i >= 1 /\ i <= Len(s) /\ InStr(Char(s, i), WordChars)

\* The positions at which a match of atoms j.. of re that starts at position
\* i of s can end (the position after its last character).
RECURSIVE MatchEnds(_, _, _, _)
MatchEnds(re, j, s, i) ==
    IF j > Len(re) THEN {i}
    ELSE LET a == re[j]
         IN  CASE a.k = "lit" ->
                    UNION {MatchEnds(re, j + 1, s, i + Len(x)) :
                              x \in {y \in a.alts : /\ i + Len(y) - 1 <= Len(s)
                                                    /\ SubSeq(s, i, i + Len(y) - 1) = y}}
               [] a.k = "cls" ->
                    UNION {MatchEnds(re, j + 1, s, i + n) :
                              n \in {m \in a.min..Min(a.max, Len(s) - i + 1) :
                                        \A p \in i..(i + m - 1) : InStr(Char(s, p), a.cls)}}
               [] a.k = "bol" -> IF i = 1 THEN MatchEnds(re, j + 1, s, i) ELSE {}
               [] a.k = "eol" -> IF i = Len(s) + 1 THEN MatchEnds(re, j + 1, s, i) ELSE {}
               [] a.k = "any" -> UNION {MatchEnds(re, j + 1, s, e) : e \in i..(Len(s) + 1)}
               [] a.k = "wb" ->
                    IF IsWordAt(s, i - 1) # IsWordAt(s, i) THEN MatchEnds(re, j + 1, s, i) ELSE {}

\* re.search(re, s) is not None
Search(re, s) == \E i \in 1..(Len(s) + 1) : MatchEnds(re, 1, s, i) # {}

\* re.search(re, s).group(0) for a pattern whose greedy match is its longest
\* one: the leftmost start, the farthest end.
SearchGroup0(re, s) ==
    LET i == CHOOSE p \in 1..(Len(s) + 1) :
                 /\ MatchEnds(re, 1, s, p) # {}
                 /\ \A q \in 1..(p - 1) : MatchEnds(re, 1, s, q) = {}
        ends == MatchEnds(re, 1, s, i)
        e == CHOOSE x \in ends : \A y \in ends : y <= x
    IN  SubSeq(s, i, e - 1)

-----------------------------------------------------------------------------
(* The curated term sets                                                   *)

\* extract_trends.LEAD_MARKETS
LEAD_MARKETS ==
    { "GB", "JP", "KR", "US" }

\* extract_trends.TARGET_MARKETS
TARGET_MARKETS ==
    { "DE", "FR", "NL" }

\* extract_trends.SOFT_STOPWORDS
SOFT_STOPWORDS ==
    { "best", "c'est", "calories", "comment", "easy", "healthier", "healthy", "kcal", "me",
      "near", "pourquoi", "simple", "was ist", "wat", "wat is" }

\* extract_trends.FOOD_HINTS
FOOD_HINTS ==
    { "acai", "adaptogens", "air fryer", "almond milk", "appetizer", "apple", "apples",
      "arugula", "avocado", "baked", "banana", "bananas", "bao", "basil", "bean", "beans",
      "beef", "bibimbap", "bok choy", "bone broth", "bowl", "bowls", "bread", "broccoli",
      "broth", "buckwheat", "bulgur", "burger", "butter", "cauliflower", "cheese", "chia",
      "chicken", "chickpea", "cilantro", "coconut milk", "collagen", "couscous", "curry",
      "dairy free", "dairy-free", "dashi", "dessert", "dip", "dressing", "dukkah", "dumpling",
      "dumplings", "edamame", "egg", "eggs", "falafel", "farro", "fermented", "feta", "flax",
      "fried", "garlic", "ghee", "ginger", "gluten free", "gluten-free", "gochujang",
      "granola", "grilled", "gyoza", "halloumi", "harissa", "hemp", "hoisin", "hummus",
      "instant pot", "jackfruit", "kale", "kefir", "keto", "kimchi", "kombucha", "labneh",
      "lasagna", "lasagne", "lemon", "lentil", "lentils", "low carb", "marinade", "matcha",
      "mct", "meal prep", "milk", "mirin", "miso", "mix", "moringa", "mozzarella", "mushroom",
      "mushrooms", "noodle", "noodles", "nori", "nutritional yeast", "oat milk", "oatmilk",
      "oats", "oil", "onion", "onions", "organic", "pad thai", "paella", "paleo", "panko",
      "parmesan", "pasta", "paste", "pho", "pickled", "pizza", "plant-based", "plantbased",
      "poke", "pork", "potato", "potatoes", "powder", "protein", "quinoa", "ramen", "recept",
      "recepten", "recette", "recettes", "recipe", "recipes", "rezept", "rezepte", "rice",
      "risotto", "roasted", "salad", "salmon", "sauce", "sauerkraut", "sauteed", "seasoning",
      "seaweed", "seitan", "sesame", "shakshuka", "shiso", "shrimp", "skyr", "slow cooker",
      "snack", "snacks", "soba", "soup", "sourdough", "sous vide", "soy milk", "spice",
      "spinach", "spirulina", "spread", "sriracha", "steamed", "stew", "sugar free", "sumac",
      "taco", "tahini", "tempeh", "tofu", "tomato", "tomatoes", "tortilla", "tuna",
      "turmeric", "tzatziki", "vegan", "vegetarian", "veggie", "vinegar", "wasabi", "wrap",
      "yoghurt", "yogurt", "yuzu", "za'atar", "zucchini" }

\* extract_trends.NONFOOD_VETO
NONFOOD_VETO ==
    { "adidas", "airpods", "apotheek", "apotheke", "catrice", "cleanser", "concealer",
      "datejust", "discharge", "dress", "eyeshadow", "foundation", "galaxy", "h&m",
      "headphones", "infection", "iphone", "jacket", "jeans", "laptop", "lipstick", "loreal",
      "macbook", "mascara", "maybelline", "medication", "moisturizer", "nike", "nyx",
      "oyster perpetual", "pharmacie", "pharmacy", "pixel", "rolex", "samsung", "sephora",
      "serum", "shoes", "skincare", "sneakers", "submariner", "symptom", "tablet", "uniqlo",
      "zara" }

\* entity_extractor.ALL_SPECIFIC_INGREDIENTS: INGREDIENT_VARIETIES flattened
ALL_SPECIFIC_INGREDIENTS ==
    { "agave", "aleppo pepper", "apple cider vinegar", "avocado oil", "balsamic vinegar",
      "black garlic vinegar", "black lava salt", "burrata", "calabrian chili",
      "champagne vinegar", "chili crisp", "chili oil", "chipotle", "coconut sugar", "comte",
      "date syrup", "feta", "fleur de sel", "fontina", "gochugaru", "gochujang", "gorgonzola",
      "grapeseed oil", "gruyere", "guajillo", "halloumi", "harissa", "himalayan pink salt",
      "hoisin", "honey butter", "kashmiri chili", "kewpie mayo", "kimchi", "maldon salt",
      "manchego", "maple syrup", "mascarpone", "miso", "monk fruit", "pecorino", "ponzu",
      "provolone", "pumpkin seed oil", "rice vinegar", "scamorza", "sel gris", "sesame oil",
      "sherry vinegar", "smoked salt", "sriracha", "stevia", "stracciatella", "tahini",
      "taleggio", "truffle oil", "urfa biber", "walnut oil", "yuzu kosho" }

\* entity_extractor.PRODUCT_FORMATS
PRODUCT_FORMATS ==
    { "canned", "dried", "fermented", "frozen", "instant", "jarred", "meal kit", "meal prep",
      "pickled", "powdered", "protein bar", "protein ice cream", "protein powder",
      "protein pudding", "rtd", "smoked", "tinned" }

\* entity_extractor.EQUIPMENT
EQUIPMENT ==
    { "air fryer", "food processor", "instant pot", "rice cooker", "slow cooker", "sous vide" }

\* entity_extractor.VIRAL_PRODUCTS
VIRAL_PRODUCTS ==
    { "biscoff", "cottage cheese ice cream", "cucumber salad", "dubai chocolate",
      "internal shower drink", "kewpie", "maldon", "pink sauce", "sleepy girl mocktail" }

\* entity_extractor.GENERIC_VETO
GENERIC_VETO ==
    { "appetizer", "beef", "breakfast", "cheese", "chicken", "chocolate", "cooking",
      "dessert", "dinner", "food", "lunch", "pork", "recipe", "recipes", "salmon", "snack" }

-----------------------------------------------------------------------------
(* extract/entity_extractor.py                                             *)

\* Python iterates a set of str in an order that the hash seed of the process
\* fixes.  The model has two seeds, one order the reverse of the other, so
\* that any two terms are met in both orders.
HashSeeds == {0, 1}

RECURSIVE Reverse(_)
Reverse(s) == IF s = <<>> THEN <<>> ELSE Append(Reverse(Tail(s)), Head(s))

\* list(S) for a set S of str in the process with hash seed h.
SetOrder(S, h) == IF h = 0 THEN SortedStrings(S) ELSE Reverse(SortedStrings(S))

\* \s+
Spaces == Cls(Whitespace, 1, Unbounded)

\* Entity(name, type, confidence); the confidence in tenths.
Entity(name, type, confidence) == [name |-> name, type |-> type, confidence |-> confidence]

\* Patterns 1 to 3: for term in terms: if term in query_lower: append.
TermEntities(terms, query_lower, type, confidence, h) ==
    LET hits == SetOrder({t \in terms : Contains(query_lower, t)}, h)
    IN  [i \in 1..Len(hits) |-> Entity(hits[i], type, confidence)]

\* rf"\b{re.escape(format_term)}\s+[\w\s]{{3,30}}\b"
FormatPattern(format_term) ==
    <<Wb, Lit({format_term}), Spaces, Cls(WordChars \o Whitespace, 3, 30), Wb>>

\* Pattern 4: product format followed by words.
RECURSIVE FormatEntities(_, _)
FormatEntities(terms, query_lower) ==
    IF terms = <<>> THEN <<>>
    ELSE (IF Contains(query_lower, Head(terms)) /\ Search(FormatPattern(Head(terms)), query_lower)
          THEN <<Entity(Strip(SearchGroup0(FormatPattern(Head(terms)), query_lower)),
                        "product_format", 8)>>
          ELSE <<>>) \o FormatEntities(Tail(terms), query_lower)

\* The food terms of pattern 5.
food_terms ==
    { "chocolate", "cheese", "sauce", "oil", "salt", "mayo", "mayonnaise", "butter", "milk",
      "cream", "yogurt", "bbq", "chicken", "beef", "noodle", "noodles", "curry", "soup",
      "salad", "tart", "cake", "cookie", "ice cream", "pudding", "bar", "drink", "latte", "tea" }

\* The end of the maximal run of characters of a class that starts at i.
RECURSIVE RunEnd(_, _, _)
RunEnd(s, i, chars) == IF i <= Len(s) /\ InStr(Char(s, i), chars) THEN RunEnd(s, i + 1, chars) ELSE i

\* [A-Z][a-z]+ at i: the position after it, or 0.
TitleWordEnd(s, i) ==
    IF i <= Len(s) /\ InStr(Char(s, i), Uppers) /\ RunEnd(s, i + 1, Lowers) > i + 1
    THEN RunEnd(s, i + 1, Lowers) ELSE 0

\* \s+([a-z]+)\b at i, the whitespace ending at from and the letters at end:
\* [ok, from, end], the word being s[from..end-1].
FoodPartEnd(s, i, from, end) ==
    [ok |-> from > i /\ end > from /\ ~IsWordAt(s, end), from |-> from, end |-> end]

FoodPartFrom(s, i, from) == FoodPartEnd(s, i, from, RunEnd(s, from, Lowers))

FoodPartAt(s, i) == FoodPartFrom(s, i, RunEnd(s, i, Whitespace))

NoFoodPart == [ok |-> FALSE, from |-> 0, end |-> 0]

NoProperNoun == [ok |-> FALSE, proper |-> "", food |-> "", end |-> 0]

\* The match whose proper noun is s[i..e-1] and whose food word is part.
ProperNounMatch(s, i, e, part) ==
    [ok |-> TRUE, proper |-> SubSeq(s, i, e - 1),
     food |-> SubSeq(s, part.from, part.end - 1), end |-> part.end]

\* The optional second word is tried first: long is the food word after two
\* capitalized words (ending at e2), short the one after the first (at e1).
ProperNounPick(s, i, e1, e2, long, short) ==
    IF IsWordAt(s, i - 1) THEN NoProperNoun
    ELSE IF long.ok THEN ProperNounMatch(s, i, e2, long)
    ELSE IF short.ok THEN ProperNounMatch(s, i, e1, short)
    ELSE NoProperNoun

ProperNounWords(s, i, e1, e2) ==
    ProperNounPick(s, i, e1, e2,
                   IF e2 > 0 THEN FoodPartAt(s, e2) ELSE NoFoodPart,
                   IF e1 > 0 THEN FoodPartAt(s, e1) ELSE NoFoodPart)

\* (?:\s+[A-Z][a-z]+)? after a first word that ends at e1, the whitespace
\* ending at w2: the position after the second word, or 0.
SecondWordEnd(s, e1, w2) == IF w2 > e1 THEN TitleWordEnd(s, w2) ELSE 0

ProperNounFirst(s, i, e1) ==
    ProperNounWords(s, i, e1, IF e1 > 0 THEN SecondWordEnd(s, e1, RunEnd(s, e1, Whitespace)) ELSE 0)

\* r"\b([A-Z][a-z]+(?:\s+[A-Z][a-z]+)?)\s+([a-z]+)\b" matched at i:
\* [ok, proper, food, end].  Every repetition is followed by a character it
\* cannot match itself, so each takes its maximal run.
ProperNounAt(s, i) == ProperNounFirst(s, i, TitleWordEnd(s, i))

\* The first position from pos on at which the pattern matches.
FirstProperNoun(s, pos) ==
    CHOOSE p \in pos..Len(s) : ProperNounAt(s, p).ok /\ \A q \in pos..(p - 1) : ~ProperNounAt(s, q).ok

\* re.findall(proper_noun_pattern, query) from position pos on.
RECURSIVE ProperNounMatches(_, _)
ProperNounFrom(s, m) == <<m>> \o ProperNounMatches(s, m.end)

ProperNounMatches(s, pos) ==
    IF \A i \in pos..Len(s) : ~ProperNounAt(s, i).ok THEN <<>>
    ELSE ProperNounFrom(s, ProperNounAt(s, FirstProperNoun(s, pos)))

ProperNounNames(matches) ==
    [i \in 1..Len(matches) |->
        Entity(Lower(matches[i].proper \o " " \o matches[i].food), "branded_product", 7)]

\* Pattern 5: proper noun + food term.
ProperNounEntities(query) ==
    ProperNounNames(SelectSeq(ProperNounMatches(query, 1), LAMBDA m : Lower(m.food) \in food_terms))

\* The entities the five patterns append, before the deduplication, in the
\* process with hash seed h.
PatternHits(query, query_lower, h) ==
    TermEntities(VIRAL_PRODUCTS, query_lower, "branded_product", 10, h)
    \o TermEntities(EQUIPMENT, query_lower, "equipment", 10, h)
    \o TermEntities(ALL_SPECIFIC_INGREDIENTS, query_lower, "ingredient_variety", 9, h)
    \o FormatEntities(SetOrder({t \in PRODUCT_FORMATS : Contains(query_lower, t)}, h),
                      query_lower)
    \o ProperNounEntities(query)

\* The deduplication that keeps the entity met last.
Deduplicate_last(entities, seen) ==
    [i \in 1..Len(SelectSeq([k \in 1..Len(entities) |-> k],
                            LAMBDA k : \A j \in k + 1..Len(entities) : entities[j].name # entities[k].name)) |->
        entities[SelectSeq([k \in 1..Len(entities) |-> k],
                           LAMBDA k : \A j \in k + 1..Len(entities) : entities[j].name # entities[k].name)[i]]]

\* The deduplication: seen_names keeps the first position of a name and the
\* entity of strictly higher confidence.
RECURSIVE Deduplicate(_, _)
Deduplicate(entities, seen) ==
    IF entities = <<>> THEN seen
    ELSE LET e == Head(entities)
             at == {i \in 1..Len(seen) : seen[i].name = e.name}
         IN  IF at = {} THEN Deduplicate(Tail(entities), Append(seen, e))
             ELSE LET i == CHOOSE x \in at : TRUE
                  IN  Deduplicate(Tail(entities),
                                  IF e.confidence > seen[i].confidence
                                  THEN [seen EXCEPT ![i] = e] ELSE seen)

\* extract_entities(query) in the process with hash seed h.
extract_entities(query, h) ==
    IF Len(query) < 3 THEN <<>>
    ELSE Deduplicate(PatternHits(query, Strip(Lower(query)), h), <<>>)

\* entity_extractor.LISTICLE_PATTERNS
LISTICLE_PATTERNS ==
    << <<Bol, Cls(Digits, 2, Unbounded), Spaces>>,
       <<Cls(Digits, 1, Unbounded), Spaces,
         Lit({"ways", "recipes", "ideas", "tips", "tricks", "hacks", "secrets", "things", "items"})>>,
       <<Spaces, Lit({"ideas"}), Eol>>,
       <<Bol, Lit({"best"}), Spaces>>,
       <<Bol, Lit({"top"}), Spaces, Cls(Digits, 1, Unbounded)>>,
       <<Bol, Lit({"how to"}), Spaces>>,
       <<Bol, Lit({"why"}), Spaces>>,
       <<Bol, Lit({"what"}), Spaces>>,
       <<Bol, Lit({"has"}), Spaces, Cls(WordChars, 1, Unbounded), Spaces, Lit({"changed", "actually"})>>,
       <<Bol, Lit({"is"}), Spaces, Cls(WordChars, 1, Unbounded), Spaces, Lit({"still", "really"})>>,
       <<Bol, Lit({"should"}), Spaces, Lit({"you"})>>,
       <<Lit({"the"}), Spaces, Lit({"best"}), Spaces>>,
       <<Lit({"the"}), Spaces, Cls(Digits, 2, Unbounded), Spaces>>,
       <<Lit({"you"}), Spaces, Lit({"need"}), Spaces, Lit({"to"}), Spaces, Lit({"know", "try", "make"})>>,
       <<Lit({"we"}), Spaces, Lit({"made", "love", "tested", "tried", "published"})>>,
       <<Lit({"our"}), Spaces, Lit({"editors"})>>,
       <<Lit({"editor", "editors"}), Spaces, Lit({"pick", "picks", "choice", "favorite", "make"})>>,
       <<Lit({"guide"}), Spaces, Lit({"to"})>>,
       <<Lit({"everything"}), Spaces, Lit({"you"}), Spaces, Lit({"need"})>>,
       <<Lit({"that"}), Spaces, Lit({"dont", "doesn't", "wont", "won't"}), Spaces, Lit({"taste"})>>,
       <<Lit({"more", "and"}), Spaces, Lit({"recipes"}), Spaces, Lit({"we"})>> >>

\* should_skip_generic(query)
should_skip_generic(query) ==
    LET query_lower == Strip(Lower(query))
        words == Split(query_lower)
    IN  \/ Len(words) = 1 /\ words[1] \in GENERIC_VETO
        \/ \E p \in 1..Len(LISTICLE_PATTERNS) : Search(LISTICLE_PATTERNS[p], query_lower)

-----------------------------------------------------------------------------
(* extract/extract_trends.py: the filters                                  *)

\* The place characters of the last local-intent pattern: letters, hyphen and
\* whitespace, under re.IGNORECASE.
PlaceChars == Lowers \o Uppers \o "-" \o Whitespace

\* .*
AnyText == [k |-> "any", alts |-> {}, cls |-> "", min |-> 0, max |-> 0]

\* extract_trends.LOCAL_INTENT_PATTERNS
LOCAL_INTENT_PATTERNS ==
    << <<Wb, Lit({"near me"}), Wb>>,
       <<Wb, Lit({"in my area"}), Wb>>,
       <<Wb, Lit({"open now", "opening hours", "openingstijden", "horaires"}), Wb>>,
       <<Wb, Lit({"menu", "karte", "carte"}), Wb>>,
       <<Wb, Lit({"delivery", "takeaway", "deliveroo", "ubereats", "just eat", "thuisbezorgd"}), Wb>>,
       <<Wb, Lit({"restaurant", "restaurants", "resto", "bar", "bistro"}), Wb>>,
       <<Wb, Lit({"review", "reviews", "rezension", "rezensionen", "avis"}), Wb>>,
       <<Wb, Lit({"best", "top", "good", "goede", "beste", "meilleur", "meilleurs", "besten"}), Wb,
         AnyText, Wb, Lit({"in", "near", "around", "bei", "en"}), Wb>>,
       <<Wb, Lit({"in", "near", "around", "bei", "en"}), Spaces,
         Cls(PlaceChars, 2, Unbounded), Eol>> >>

\* LOCAL_INTENT_RE.search(q)
LocalIntent(q) == \E p \in 1..Len(LOCAL_INTENT_PATTERNS) : Search(LOCAL_INTENT_PATTERNS[p], q)

\* RECIPE_RE.search(q)
RecipeIntent(q) ==
    Search(<<Wb, Lit({"recipe", "recipes", "recept", "recepten", "rezept", "rezepte",
                     "recette", "recettes"}), Wb>>, q)

\* normalize(text)
normalize(text) ==
    LET t1 == Strip(Lower(text))
        t2 == CollapseWhitespace(t1)
        t3 == KeepChars(t2, WordChars \o Whitespace \o "-")
    IN  Strip(StripChars(t3, "- "))

pantry == {"sauce", "paste", "powder", "mix", "broth", "marinade", "dressing", "dip"}

\* food_intent_score(q)
food_intent_score(q) ==
    LET ql == Lower(q)
    IN  (IF \E v \in NONFOOD_VETO : Contains(ql, v) THEN -3 ELSE 0)
        + (IF LocalIntent(ql) THEN -3 ELSE 0)
        + (IF RecipeIntent(ql) THEN 2 ELSE 0)
        + (IF \E f \in FOOD_HINTS : Contains(ql, f) THEN 2 ELSE 0)
        + (IF \E p \in pantry : Contains(ql, p) THEN 1 ELSE 0)

\* is_foody(query)
is_foody(query) ==
    IF Len(query) < 3 THEN FALSE
    ELSE LET q == Strip(Lower(query))
         IN  IF LocalIntent(q) THEN FALSE
             ELSE IF \E v \in NONFOOD_VETO : Contains(q, v) THEN FALSE
             ELSE food_intent_score(q) >= 2

\* for w in SOFT_STOPWORDS: q = q.replace(f" {w} ", " ")
RECURSIVE StripSoftStopwords(_, _)
StripSoftStopwords(q, words) ==
    IF words = <<>> THEN q
    ELSE StripSoftStopwords(Replace(q, " " \o Head(words) \o " ", " "), Tail(words))

-----------------------------------------------------------------------------
(* rapidfuzz, as cluster_queries calls it                                  *)

\* One row of the longest-common-subsequence table of a and b: cur holds the
\* columns 0..j-1 of the row of character c, prev the row before it.  The
\* row is computed cell by cell before the recursion goes on.
RECURSIVE LcsRow(_, _, _, _, _)
LcsRow(prev, c, b, j, cur) ==
    IF j > Len(b) THEN cur
    ELSE LET next == Append(cur, IF c = Char(b, j) THEN prev[j] + 1 ELSE Max(prev[j + 1], cur[j]))
         IN  IF Len(next) = j + 1 THEN LcsRow(prev, c, b, j + 1, next) ELSE <<>>

RECURSIVE LcsRows(_, _, _, _)
LcsRows(a, b, i, prev) ==
    IF i > Len(a) THEN prev[Len(b) + 1]
    ELSE LET row == LcsRow(prev, Char(a, i), b, 1, <<0>>)
         IN  IF Len(row) = Len(b) + 1 THEN LcsRows(a, b, i + 1, row) ELSE 0

\* The length of the longest common subsequence of two strings.
Lcs(a, b) == LcsRows(a, b, 1, [j \in 1..(Len(b) + 1) |-> 0])

\* Indel.distance(a, b): insertions and deletions that turn a into b.
indel_distance(a, b) == Len(a) + Len(b) - 2 * Lcs(a, b)

\* A similarity is the fraction <<n, d>>: the score 100 * n / d.
norm_distance(dist, lensum) == IF lensum > 0 THEN <<lensum - dist, lensum>> ELSE <<1, 1>>

RatLess(x, y) == x[1] * y[2] < y[1] * x[2]

RatMax(x, y) == IF RatLess(x, y) THEN y ELSE x

\* score >= threshold, for a threshold on the 0..100 scale.
AtLeast(score, t) == 100 * score[1] >= t * score[2]

Range(s) == {s[i] : i \in 1..Len(s)}

\* The three ratios of token_set_ratio and their maximum, from the lengths
\* of the joined token sets and the distance between the two differences.
TokenSetLens(sect_len, sep, ab_len, ba_len, dist) ==
    LET sect_ab_len == sect_len + sep + ab_len
        sect_ba_len == sect_len + sep + ba_len
        result == norm_distance(dist, sect_ab_len + sect_ba_len)
        sect_ab_ratio == norm_distance(sep + ab_len, sect_len + sect_ab_len)
        sect_ba_ratio == norm_distance(sep + ba_len, sect_len + sect_ba_len)
    IN  IF sect_len = 0 THEN result
        ELSE RatMax(result, RatMax(sect_ab_ratio, sect_ba_ratio))

TokenSetJoined(sect_len, diff_ab_joined, diff_ba_joined) ==
    TokenSetLens(sect_len, IF sect_len # 0 THEN 1 ELSE 0, Len(diff_ab_joined), Len(diff_ba_joined),
                 indel_distance(diff_ab_joined, diff_ba_joined))

TokenSetParts(intersect, diff_ab, diff_ba) ==
    IF intersect # {} /\ (diff_ab = {} \/ diff_ba = {}) THEN <<1, 1>>
    ELSE TokenSetJoined(Len(Join(SortedStrings(intersect))), Join(SortedStrings(diff_ab)),
                        Join(SortedStrings(diff_ba)))

TokenSets(tokens_a, tokens_b) ==
    IF tokens_a = {} \/ tokens_b = {} THEN <<0, 1>>
    ELSE TokenSetParts(tokens_a \cap tokens_b, tokens_a \ tokens_b, tokens_b \ tokens_a)

\* fuzz.token_set_ratio(s1, s2)
token_set_ratio(s1, s2) == TokenSets(Range(Split(s1)), Range(Split(s2)))

\* The choice of highest score, the first of them when several tie.
BestChoice(labels, scores) ==
    LET i == CHOOSE x \in 1..Len(labels) :
                 /\ \A y \in 1..Len(labels) : ~RatLess(scores[x], scores[y])
                 /\ \A y \in 1..(x - 1) : RatLess(scores[y], scores[x])
    IN  [label |-> labels[i], score |-> scores[i]]

\* process.extract(q, labels, scorer=fuzz.token_set_ratio, limit=1)[0]
rf_extract(q, labels) ==
    BestChoice(labels, [y \in 1..Len(labels) |-> token_set_ratio(q, labels[y])])

-----------------------------------------------------------------------------
(* extract/extract_trends.py: cluster_queries                              *)

\* cluster_queries(rows, threshold=88); run_extract passes no threshold.
threshold == 88

\* A JSON number and a JSON string, told apart as isinstance(v, str) does.
Num(n) == [t |-> "num", v |-> n]
Str(s) == [t |-> "str", v |-> s]
JNone == [t |-> "none", v |-> 0]

\* max(entities, key=lambda e: e.confidence): the first of highest confidence.
MaxConfidence(entities) ==
    entities[CHOOSE i \in 1..Len(entities) :
                 /\ \A j \in 1..Len(entities) : entities[j].confidence <= entities[i].confidence
                 /\ \A j \in 1..(i - 1) : entities[j].confidence < entities[i].confidence]

\* agg is a dict in insertion order: a sequence of [key, rows], the rows by
\* their index in the input.
AggKeys(a) == [i \in 1..Len(a) |-> a[i].key]

\* agg[key]
AggGet(a, key) ==
    IF \E i \in 1..Len(a) : a[i].key = key
    THEN a[CHOOSE i \in 1..Len(a) : a[i].key = key].rows
    ELSE <<>>

\* agg[key].append(r) that opens an entry of its own for every row.
AggAppend_split(a, key, r) == Append(a, [key |-> key, rows |-> <<r>>])

\* agg[key].append(r)
AggAppend(a, key, r) ==
    IF \E i \in 1..Len(a) : a[i].key = key
    THEN [i \in 1..Len(a) |-> IF a[i].key = key THEN [a[i] EXCEPT !.rows = Append(@, r)] ELSE a[i]]
    ELSE Append(a, [key |-> key, rows |-> <<r>>])

\* r["entity_name"], r["entity_type"], r["entity_confidence"] = ...
WithEntity(r, e) ==
    [k \in DOMAIN r \cup {"entity_name", "entity_type", "entity_confidence"} |->
        CASE k = "entity_name" -> e.name
          [] k = "entity_type" -> e.type
          [] k = "entity_confidence" -> e.confidence
          [] OTHER -> r[k]]

\* Mutant: the similarity is taken against every key of every cluster.
RECURSIVE MergeLabels_members(_)
MergeLabels_members(cs) ==
    IF cs = <<>> THEN <<>> ELSE Head(cs).members \o MergeLabels_members(Tail(cs))

\* labels = [c[0] for c in clusters]
MergeLabels(cs) == [i \in 1..Len(cs) |-> cs[i].label]

\* Mutant: a merged key opens a second cluster under the label it matched.
MergeInto_again(cs, best_label, q) == Append(cs, [label |-> best_label, members |-> <<q>>])

\* for label, members in clusters: if label == best_label: members.append(q)
MergeInto(cs, best_label, q) ==
    [i \in 1..Len(cs) |->
        IF cs[i].label = best_label THEN [cs[i] EXCEPT !.members = Append(@, q)] ELSE cs[i]]

\* Mutant: the rows of the primary label only.
AllRows_primary(a, members) == AggGet(a, Head(members))

\* all_rows: the rows of every member key, in member order.
RECURSIVE AllRows(_, _)
AllRows(a, members) ==
    IF members = <<>> THEN <<>> ELSE AggGet(a, Head(members)) \o AllRows(a, Tail(members))

DigitValue(c) == (CHOOSE i \in 1..Len(Digits) : Char(Digits, i) = c) - 1

IsDigits(s) == \A i \in 1..Len(s) : InStr(Char(s, i), Digits)

\* int(s) for a string of digits.
RECURSIVE Number(_)
Number(s) == IF s = "" THEN 0 ELSE 10 * Number(SubSeq(s, 1, Len(s) - 1)) + DigitValue(Char(s, Len(s)))

\* float(v) does not raise for the string v: digits, with or without white
\* space around them.  The other strings of the model are none float() parses.
FloatParses(v) == Strip(v) # "" /\ IsDigits(Strip(v))

\* Mutant: a score float() rejects is in the mean as 0.
ScoreValue_zero(v) ==
    IF v.t = "str" /\ Lower(v.v) = "breakout" THEN [ok |-> TRUE, val |-> 150]
    ELSE IF v.t = "num" THEN [ok |-> TRUE, val |-> v.v]
    ELSE IF v.t = "str" /\ FloatParses(v.v) THEN [ok |-> TRUE, val |-> Number(Strip(v.v))]
    ELSE [ok |-> TRUE, val |-> 0]

\* The value a record's score adds to scores: [ok, val]; "breakout" in any
\* case is 150, a number or a string float() parses is its value, and what
\* float() rejects is left out of the mean.
ScoreValue(v) ==
    IF v.t = "str" /\ Lower(v.v) = "breakout" THEN [ok |-> TRUE, val |-> 150]
    ELSE IF v.t = "num" THEN [ok |-> TRUE, val |-> v.v]
    ELSE IF v.t = "str" /\ FloatParses(v.v) THEN [ok |-> TRUE, val |-> Number(Strip(v.v))]
    ELSE [ok |-> FALSE, val |-> 0]

RECURSIVE SumSeq(_)
SumSeq(s) == IF s = <<>> THEN 0 ELSE Head(s) + SumSeq(Tail(s))

\* base * breadth as the fraction <<n, d>>:
\* (sum / len) * (1 + 0.25 * max(0, seeds - 1)) * (1 + 0.5 * max(0, countries - 1)).
final_score(scores, seeds, countries) ==
    LET base == IF scores = <<>> THEN <<0, 1>> ELSE <<SumSeq(scores), Len(scores)>>
    IN  <<base[1] * (4 + Max(0, Cardinality(seeds) - 1)) * (2 + Max(0, Cardinality(countries) - 1)),
          base[2] * 8>>

\* scores: the values float() accepts, in row order.
ParsedScores(values) ==
    [i \in 1..Len(SelectSeq(values, LAMBDA x : x.ok)) |-> SelectSeq(values, LAMBDA x : x.ok)[i].val]

\* Mutant: the countries and the seeds in descending order.
TrendCluster_descending(label, all_rows, countries, seeds, scores) ==
    [label |-> label,
     queries |-> all_rows,
     countries |-> Reverse(SortedStrings({x \in countries : Truthy(x)})),
     seeds |-> Reverse(SortedStrings({x \in seeds : Truthy(x)})),
     score |-> final_score(scores, seeds, countries)]

\* TrendCluster(label, queries, countries, seeds, score); queries holds the
\* rows by their index in the input.
TrendCluster(label, all_rows, countries, seeds, scores) ==
    [label |-> label,
     queries |-> all_rows,
     countries |-> SortedStrings({x \in countries : Truthy(x)}),
     seeds |-> SortedStrings({x \in seeds : Truthy(x)}),
     score |-> final_score(scores, seeds, countries)]

\* The aggregation over the rows of one cluster.
Aggregate(rs, label, all_rows) ==
    TrendCluster(label, all_rows,
                 {DictGet(rs[all_rows[i]], "country", None) : i \in 1..Len(all_rows)},
                 {DictGet(rs[all_rows[i]], "seed", None) : i \in 1..Len(all_rows)},
                 ParsedScores([i \in 1..Len(all_rows) |->
                                  ScoreValue(DictGet(rs[all_rows[i]], "score", JNone))]))

\* The TrendCluster of one (label, members) pair.
BuildTrendCluster(rs, a, c) == Aggregate(rs, c.label, AllRows(a, c.members))

\* out.sort(key=lambda x: x.score, reverse=True): stable, x goes after every
\* cluster whose score is not smaller.
RECURSIVE InsertByScore(_, _)
InsertByScore(sorted, x) ==
    IF sorted = <<>> THEN <<x>>
    ELSE IF RatLess(Head(sorted).score, x.score) THEN <<x>> \o sorted
    ELSE <<Head(sorted)>> \o InsertByScore(Tail(sorted), x)

RECURSIVE SortedByScore(_)
SortedByScore(o) ==
    IF o = <<>> THEN <<>>
    ELSE InsertByScore(SortedByScore(SubSeq(o, 1, Len(o) - 1)), o[Len(o)])

-----------------------------------------------------------------------------
(* score/components and score/trend_scorer.py.  A score is a whole number   *)
(* of hundredths: 5.0 is 500.  The entity confidence of a trend dict is a  *)
(* whole number of thousandths: 0.85 is 850.                               *)

\* Python floats.  A double d with 0 <= d < 2^13 that is a whole multiple of
\* 2^-60 is the sequence <<f0, f1, f2, i>> of its digits to the base 2^20:
\* d = i + f2 / 2^20 + f1 / 2^40 + f0 / 2^60.  Every double from 2^-7 up is
\* such a multiple; the floats of the model are 0 or lie in that range.
Limb == 1024 * 1024

\* The double of a whole number of halves given in hundredths, which is exact.
FxHalves(h) == <<0, 0, IF h % 100 = 50 THEN Limb \div 2 ELSE 0, h \div 100>>

RECURSIVE Pow2(_)
Pow2(n) == IF n = 0 THEN 1 ELSE 2 * Pow2(n - 1)

\* The number of bits of a digit.
RECURSIVE BitLen(_)
BitLen(v) == IF v = 0 THEN 0 ELSE 1 + BitLen(v \div 2)

\* The number of bits of x from its highest 1 down to the bit of 2^-60.
FxBits(x) ==
    IF x[4] # 0 THEN 60 + BitLen(x[4])
    ELSE IF x[3] # 0 THEN 40 + BitLen(x[3])
    ELSE IF x[2] # 0 THEN 20 + BitLen(x[2])
    ELSE BitLen(x[1])

\* The digits with their carries taken over.
FxCarry(l0, l1, l2, l3) ==
    <<l0 % Limb,
      (l1 + l0 \div Limb) % Limb,
      (l2 + (l1 + l0 \div Limb) \div Limb) % Limb,
      l3 + (l2 + (l1 + l0 \div Limb) \div Limb) \div Limb>>

\* x without its low bits rem, which are less than p = 2^q, rounded to
\* nearest and on a tie to even; sticky: the exact value lies above x.
FxDrop(x, p, rem, kept_odd, sticky) ==
    FxCarry(x[1] - rem + (IF 2 * rem > p \/ (2 * rem = p /\ (sticky \/ kept_odd)) THEN p ELSE 0),
            x[2], x[3], x[4])

FxDropBits(x, q, sticky) ==
    FxDrop(x, Pow2(q), x[1] % Pow2(q),
           IF q = 20 THEN x[2] % 2 = 1 ELSE (x[1] \div Pow2(q)) % 2 = 1, sticky)

\* The double nearest to x: a mantissa of 53 bits.
FxRound53(x, sticky) == IF FxBits(x) <= 53 THEN x ELSE FxDropBits(x, FxBits(x) - 53, sticky)

\* a + b on floats
FxAdd(a, b) == FxRound53(FxCarry(a[1] + b[1], a[2] + b[2], a[3] + b[3], a[4] + b[4]), FALSE)

\* a < b on floats
FxLess(a, b) ==
    \/ a[4] < b[4]
    \/ a[4] = b[4] /\ a[3] < b[3]
    \/ a[4] = b[4] /\ a[3] = b[3] /\ a[2] < b[2]
    \/ a[4] = b[4] /\ a[3] = b[3] /\ a[2] = b[2] /\ a[1] < b[1]

\* min(a, b) and max(a, b): the first argument unless the second is beyond it.
FxMin(a, b) == IF FxLess(b, a) THEN b ELSE a

\* The long division of n / den, digit by digit, r the remainder so far.
FxDiv0(den, i, f2, f1, r) == FxRound53(<<(r * Limb) \div den, f1, f2, i>>, (r * Limb) % den # 0)

FxDiv1(den, i, f2, r) == FxDiv0(den, i, f2, (r * Limb) \div den, (r * Limb) % den)

FxDiv2(den, i, r) == FxDiv1(den, i, (r * Limb) \div den, (r * Limb) % den)

\* float("n / den") for a decimal literal, den at most 1000: the nearest double.
FxDecimal(n, den) == FxDiv2(den, n \div den, n % den)

\* m = 100 * x rounded to a whole number, on a tie to the even one.
FxHalfEven(m) ==
    m[4] + (IF \/ m[3] > Limb \div 2
               \/ m[3] = Limb \div 2 /\ (m[2] > 0 \/ m[1] > 0)
               \/ m[3] = Limb \div 2 /\ m[2] = 0 /\ m[1] = 0 /\ m[4] % 2 = 1
            THEN 1 ELSE 0)

\* round(x, 2), in hundredths: the exact value of the double x is rounded.
FxRound2(x) == FxHalfEven(FxCarry(100 * x[1], 100 * x[2], 100 * x[3], 100 * x[4]))

IsLeap(y) == y % 4 = 0 /\ (y % 100 # 0 \/ y % 400 = 0)

DaysInMonth(y, m) ==
    IF m = 2 THEN (IF IsLeap(y) THEN 29 ELSE 28)
    ELSE IF m \in {4, 6, 9, 11} THEN 30 ELSE 31

RECURSIVE DaysBeforeMonth(_, _)
DaysBeforeMonth(y, m) == IF m = 1 THEN 0 ELSE DaysBeforeMonth(y, m - 1) + DaysInMonth(y, m - 1)

\* The days from 0001-01-01 to the first day of year y.
DaysBeforeYear(y) == 365 * (y - 1) + ((y - 1) \div 4) - ((y - 1) \div 100) + ((y - 1) \div 400)

\* The fields of "YYYY-MM-DDTHH:MM:SSZ".  The timestamps of the model are
\* spelled this way, in UTC, or without the Z; the other strings of the
\* model are strings fromisoformat rejects.
IsoFields(ts) ==
    [y |-> SubSeq(ts, 1, 4), mo |-> SubSeq(ts, 6, 7), d |-> SubSeq(ts, 9, 10),
     h |-> SubSeq(ts, 12, 13), mi |-> SubSeq(ts, 15, 16), s |-> SubSeq(ts, 18, 19),
     sep |-> Char(ts, 5) \o Char(ts, 8) \o Char(ts, 11) \o Char(ts, 14) \o Char(ts, 17) \o Char(ts, 20)]

IsoFieldsOk(f) ==
    /\ f.sep = "--T::Z"
    /\ IsDigits(f.y \o f.mo \o f.d \o f.h \o f.mi \o f.s)
    /\ Number(f.y) >= 1
    /\ Number(f.mo) \in 1..12
    /\ Number(f.d) \in 1..DaysInMonth(Number(f.y), Number(f.mo))
    /\ Number(f.h) < 24 /\ Number(f.mi) < 60 /\ Number(f.s) < 60

\* datetime.fromisoformat(ts.replace("Z", "+00:00")) gives an aware datetime.
IsIso(ts) == Len(ts) = 20 /\ IsoFieldsOk(IsoFields(ts))

\* datetime.fromisoformat(ts.replace("Z", "+00:00")) gives a naive datetime:
\* the timestamp names no offset.
IsNaiveIso(ts) == Len(ts) = 19 /\ IsoFieldsOk(IsoFields(ts \o "Z"))

\* Seconds since 2000-01-01T00:00:00Z.
IsoSeconds(f) ==
    (DaysBeforeYear(Number(f.y)) - DaysBeforeYear(2000) + DaysBeforeMonth(Number(f.y), Number(f.mo))
     + Number(f.d) - 1) * 86400
    + Number(f.h) * 3600 + Number(f.mi) * 60 + Number(f.s)

\* The datetime of a timestamp.
Timestamp(ts) == IsoSeconds(IsoFields(ts))

\* Mutant: a first sighting of at most a week ago scores 5.5.
RecencyLadder_bonus(age_days) ==
    IF age_days <= 7 THEN 550
    ELSE IF age_days <= 14 THEN 400
    ELSE IF age_days <= 30 THEN 300
    ELSE IF age_days <= 60 THEN 200
    ELSE IF age_days <= 90 THEN 100
    ELSE 50

\* The scoring ladder of score_recency.
RecencyLadder(age_days) ==
    IF age_days <= 7 THEN 500
    ELSE IF age_days <= 14 THEN 400
    ELSE IF age_days <= 30 THEN 300
    ELSE IF age_days <= 60 THEN 200
    ELSE IF age_days <= 90 THEN 100
    ELSE 50

\* (now - min(timestamps)).days
AgeDays(timestamps, now) ==
    (now - (CHOOSE t \in timestamps : \A u \in timestamps : t <= u)) \div 86400

RecencyOf(timestamps, now) == IF timestamps = {} THEN 0 ELSE RecencyLadder(AgeDays(timestamps, now))

\* score_recency(trend) raises TypeError: a naive datetime among the parsed
\* timestamps is compared with an aware one in min(timestamps), or
\* subtracted from the aware now.
RecencyRaises(trend) ==
    \E x \in Range(DictGet(trend, "first_seen", <<>>)) : IsNaiveIso(x.ts)

\* score_recency(trend), called at the time now, when it does not raise;
\* first_seen is a dict in insertion order, a sequence of [cc, ts].
score_recency(trend, now) ==
    RecencyOf({Timestamp(p.ts) : p \in {x \in Range(DictGet(trend, "first_seen", <<>>)) : IsIso(x.ts)}},
              now)

\* breadth.LEAD_MARKETS
breadth_LEAD_MARKETS == {"US", "GB", "KR", "JP", "CN"}

\* breadth.TARGET_MARKETS
breadth_TARGET_MARKETS == {"NL", "DE", "FR"}

\* Mutant: five markets and more score as one market does.
BreadthOf_wide(market_count, lead_count, target_count) ==
    Min(500,
        (IF market_count >= 5 THEN 50 ELSE IF market_count >= 3 THEN 150
         ELSE IF market_count >= 2 THEN 100 ELSE 50)
        + (IF lead_count >= 3 THEN 200 ELSE IF lead_count >= 2 THEN 150
           ELSE IF lead_count >= 1 THEN 100 ELSE 0)
        + (IF target_count >= 2 THEN 100 ELSE IF target_count >= 1 THEN 50 ELSE 0))

\* The three sub-scores of score_breadth, capped at 5.0.
BreadthOf(market_count, lead_count, target_count) ==
    Min(500,
        (IF market_count >= 5 THEN 200 ELSE IF market_count >= 3 THEN 150
         ELSE IF market_count >= 2 THEN 100 ELSE 50)
        + (IF lead_count >= 3 THEN 200 ELSE IF lead_count >= 2 THEN 150
           ELSE IF lead_count >= 1 THEN 100 ELSE 0)
        + (IF target_count >= 2 THEN 100 ELSE IF target_count >= 1 THEN 50 ELSE 0))

BreadthOfCountries(countries) ==
    IF countries = {} THEN 0
    ELSE BreadthOf(Cardinality(countries), Cardinality(countries \cap breadth_LEAD_MARKETS),
                   Cardinality(countries \cap breadth_TARGET_MARKETS))

\* score_breadth(trend)
score_breadth(trend) == BreadthOfCountries(Range(DictGet(trend, "countries", <<>>)))

\* Mutant: the growth rate is compared with >=.
GrowthAbove_orEqual(current, previous, n, d) ==
    IF previous > 0 THEN (current - previous) * d >= n * previous
    ELSE (current - previous) * d <= n * previous

\* growth_rate > n / d, for growth_rate = (current - previous) / previous.
GrowthAbove(current, previous, n, d) ==
    IF previous > 0 THEN (current - previous) * d > n * previous
    ELSE (current - previous) * d < n * previous

\* The scoring ladder of score_velocity.
VelocityOf(current_count, previous_count) ==
    IF previous_count = 0 THEN (IF current_count > 0 THEN 400 ELSE 0)
    ELSE IF GrowthAbove(current_count, previous_count, 5, 10) THEN 500
    ELSE IF GrowthAbove(current_count, previous_count, 3, 10) THEN 400
    ELSE IF GrowthAbove(current_count, previous_count, 1, 10) THEN 300
    ELSE IF GrowthAbove(current_count, previous_count, 0, 10) THEN 200
    ELSE IF GrowthAbove(current_count, previous_count, -1, 10) THEN 100
    ELSE 50

\* score_velocity(trend, history)
score_velocity(trend, history) ==
    IF Len(history) < 2 THEN 250
    ELSE VelocityOf(DictGet(history[Len(history)], "raw_count", 0),
                    DictGet(history[Len(history) - 1], "raw_count", 0))

\* The heuristic of score_specificity for a trend without entity metadata,
\* in hundredths.
SpecificityHeuristic(label, trend_name) ==
    Max(0, Min(500,
        (IF Len(Split(trend_name)) >= 3 THEN 300 ELSE IF Len(Split(trend_name)) = 2 THEN 250 ELSE 100)
        + (IF Search(<<Wb, Cls(Uppers, 1, 1), Cls(Lowers, 1, Unbounded), Wb>>, label) THEN 100 ELSE 0)
        - (IF \E term \in {"recipe", "recipes", "food", "cooking", "dinner", "lunch"} :
                 Contains(trend_name, term)
           THEN 100 ELSE 0)))

\* min(5.0, base + entity_confidence), the confidence in thousandths.
SpecificityPlus(base, entity_confidence) ==
    FxMin(FxHalves(500), FxAdd(FxHalves(base), FxDecimal(entity_confidence, 1000)))

SpecificityOf(label, entity_type, entity_confidence) ==
    IF entity_type = "branded_product" THEN SpecificityPlus(400, entity_confidence)
    ELSE IF entity_type = "equipment" THEN FxHalves(500)
    ELSE IF entity_type = "ingredient_variety" THEN SpecificityPlus(350, entity_confidence)
    ELSE IF entity_type = "product_format" THEN SpecificityPlus(300, entity_confidence)
    ELSE FxHalves(SpecificityHeuristic(label, Lower(label)))

\* score_specificity(trend), a float; the confidence is read only where it
\* is added.
score_specificity(trend) ==
    SpecificityOf(DictGet(trend, "trend", ""), DictGet(trend, "entity_type", None),
                  DictGet(trend, "entity_confidence", 0))

\* The source type score_diversity files a seed under.
SourceType(seed_lower) ==
    IF Contains(seed_lower, "google_trends") \/ Contains(seed_lower, "trend") THEN "search"
    ELSE IF Contains(seed_lower, "menu") \/ Contains(seed_lower, "resy")
            \/ Contains(seed_lower, "thefork") THEN "menu"
    ELSE IF Contains(seed_lower, "blog") \/ Contains(seed_lower, "food_blog") THEN "blog"
    ELSE IF Contains(seed_lower, "reddit") \/ Contains(seed_lower, "social") THEN "social"
    ELSE IF Contains(seed_lower, "competitor") \/ Contains(seed_lower, "retail") THEN "retail"
    ELSE "other"

DiversityOf(seed_count, diversity_count) ==
    IF diversity_count >= 4 THEN 500
    ELSE IF diversity_count = 3 THEN 400
    ELSE IF diversity_count = 2 THEN 300
    ELSE IF diversity_count = 1 THEN (IF seed_count >= 3 THEN 200 ELSE 100)
    ELSE 0

DiversityOfSeeds(seeds) ==
    IF seeds = <<>> THEN 0
    ELSE DiversityOf(Len(seeds), Cardinality({SourceType(Lower(seeds[i])) : i \in 1..Len(seeds)}))

\* score_diversity(trend)
score_diversity(trend) == DiversityOfSeeds(DictGet(trend, "seeds", <<>>))

\* breakdown: the five components as floats; all but the specificity are
\* whole numbers of halves.
Breakdown(trend, history, now) ==
    [recency |-> FxHalves(score_recency(trend, now)),
     breadth |-> FxHalves(score_breadth(trend)),
     velocity |-> FxHalves(score_velocity(trend, history)),
     specificity |-> score_specificity(trend),
     diversity |-> FxHalves(score_diversity(trend))]

\* sum(breakdown.values()): the floats are added from left to right.
Total(breakdown) ==
    FxAdd(FxAdd(FxAdd(FxAdd(breakdown.recency, breakdown.breadth), breakdown.velocity),
                breakdown.specificity),
          breakdown.diversity)

\* round(total, 2), {k: round(v, 2) for k, v in breakdown.items()}, in hundredths.
Rounded(breakdown) ==
    [total |-> FxRound2(Total(breakdown)),
     breakdown |-> [k \in DOMAIN breakdown |-> FxRound2(breakdown[k])]]

\* TrendScorer.score(trend, history): [total, breakdown].
TrendScorer_score(trend, history, now) == Rounded(Breakdown(trend, history, now))

\* dict[key] = value on a dict modelled as a function.
DictSet(d, key, value) == [k \in DOMAIN d \cup {key} |-> IF k = key THEN value ELSE d[k]]

\* trend["score"] = total_score; trend["score_breakdown"] = breakdown
WithScore(trend, scored) ==
    DictSet(DictSet(trend, "score", scored.total), "score_breakdown", scored.breakdown)

\* sort(key=lambda t: t["score"], reverse=True): stable, t goes after every
\* trend whose score is not smaller.
RECURSIVE InsertByTotal(_, _)
InsertByTotal(sorted, t) ==
    IF sorted = <<>> THEN <<t>>
    ELSE IF Head(sorted).score < t.score THEN <<t>> \o sorted
    ELSE <<Head(sorted)>> \o InsertByTotal(Tail(sorted), t)

\* Mutant: the list is left in the order of the input.
SortedByTotal_unsorted(ts) == ts

RECURSIVE SortedByTotal(_)
SortedByTotal(ts) ==
    IF ts = <<>> THEN <<>>
    ELSE InsertByTotal(SortedByTotal(SubSeq(ts, 1, Len(ts) - 1)), ts[Len(ts)])

\* history_map.get(trend_name, [])
MapGet(m, label) == IF label \in DOMAIN m THEN m[label] ELSE <<>>

\* TrendScorer.score_batch(trends, history_map)
score_batch(trends, hmap, now) ==
    SortedByTotal([i \in 1..Len(trends) |->
                      WithScore(trends[i],
                                TrendScorer_score(trends[i], MapGet(hmap, DictGet(trends[i], "trend", "")), now))])

-----------------------------------------------------------------------------
(* extract/extract_trends.py: export_clusters                              *)

\* export_clusters(clusters, top_n=50); run_extract passes no top_n.
top_n == 50

\* s[:n]
Take(s, n) == SubSeq(s, 1, Min(n, Len(s)))

AppendNew(s, x) == IF x \in Range(s) THEN s ELSE Append(s, x)

\* The elements of a sequence, each once, in the order they first occur.
RECURSIVE FirstOccurrence(_)
FirstOccurrence(s) ==
    IF s = <<>> THEN <<>> ELSE AppendNew(FirstOccurrence(SubSeq(s, 1, Len(s) - 1)), s[Len(s)])

CountOf(s, x) == Cardinality({i \in 1..Len(s) : s[i] = x})

\* x goes after every element that s has at least as often.
RECURSIVE InsertByCount(_, _, _)
InsertByCount(sorted, x, s) ==
    IF sorted = <<>> THEN <<x>>
    ELSE IF CountOf(s, Head(sorted)) < CountOf(s, x) THEN <<x>> \o sorted
    ELSE <<Head(sorted)>> \o InsertByCount(Tail(sorted), x, s)

RECURSIVE SortedByCount(_, _)
SortedByCount(keys, s) ==
    IF keys = <<>> THEN <<>>
    ELSE InsertByCount(SortedByCount(SubSeq(keys, 1, Len(keys) - 1), s), keys[Len(keys)], s)

\* [k for k, _ in Counter(s).most_common()]: by falling count, the elements
\* of one count in the order they first occur.
most_common(s) == SortedByCount(FirstOccurrence(s), s)

\* first_seen after row r: a dict in insertion order, a sequence of [cc, ts].
FirstSeenPut(first_seen, cc, ts) ==
    IF ~Truthy(cc) \/ ~Truthy(ts) THEN first_seen
    ELSE IF \A i \in 1..Len(first_seen) : first_seen[i].cc # cc
    THEN Append(first_seen, [cc |-> cc, ts |-> ts])
    ELSE [i \in 1..Len(first_seen) |->
             IF first_seen[i].cc = cc /\ StrLess(ts, first_seen[i].ts)
             THEN [cc |-> cc, ts |-> ts] ELSE first_seen[i]]

\* first_seen that keeps, per country, the timestamp of the first row met.
FirstSeen_first(rs) ==
    [k \in 1..Len(SelectSeq([i \in 1..Len(rs) |-> i],
                            LAMBDA i : /\ Truthy(DictGet(rs[i], "country", None))
                                       /\ Truthy(DictGet(rs[i], "fetched_at", None))
                                       /\ \A j \in 1..i - 1 :
                                             ~Truthy(DictGet(rs[j], "fetched_at", None))
                                             \/ DictGet(rs[j], "country", None) # DictGet(rs[i], "country", None))) |->
        [cc |-> rs[SelectSeq([i \in 1..Len(rs) |-> i],
                             LAMBDA i : /\ Truthy(DictGet(rs[i], "country", None))
                                        /\ Truthy(DictGet(rs[i], "fetched_at", None))
                                        /\ \A j \in 1..i - 1 :
                                              ~Truthy(DictGet(rs[j], "fetched_at", None))
                                              \/ DictGet(rs[j], "country", None) # DictGet(rs[i], "country", None))[k]].country,
         ts |-> rs[SelectSeq([i \in 1..Len(rs) |-> i],
                             LAMBDA i : /\ Truthy(DictGet(rs[i], "country", None))
                                        /\ Truthy(DictGet(rs[i], "fetched_at", None))
                                        /\ \A j \in 1..i - 1 :
                                              ~Truthy(DictGet(rs[j], "fetched_at", None))
                                              \/ DictGet(rs[j], "country", None) # DictGet(rs[i], "country", None))[k]].fetched_at]]

\* first_seen per country over the rows of a cluster.
RECURSIVE FirstSeen(_)
FirstSeen(rs) ==
    IF rs = <<>> THEN <<>>
    ELSE FirstSeenPut(FirstSeen(SubSeq(rs, 1, Len(rs) - 1)),
                      DictGet(rs[Len(rs)], "country", None), DictGet(rs[Len(rs)], "fetched_at", None))

\* sorted(first_seen.items(), key=lambda kv: kv[1]): stable.
RECURSIVE InsertByTs(_, _)
InsertByTs(sorted, p) ==
    IF sorted = <<>> THEN <<p>>
    ELSE IF StrLess(p.ts, Head(sorted).ts) THEN <<p>> \o sorted
    ELSE <<Head(sorted)>> \o InsertByTs(Tail(sorted), p)

RECURSIVE SortedByTs(_)
SortedByTs(first_seen) ==
    IF first_seen = <<>> THEN <<>>
    ELSE InsertByTs(SortedByTs(SubSeq(first_seen, 1, Len(first_seen) - 1)), first_seen[Len(first_seen)])

Countries(pairs) == [i \in 1..Len(pairs) |-> pairs[i].cc]

\* country_order: the countries by the time they were first seen.
country_order(first_seen) == Countries(SortedByTs(first_seen))

\* The earliest timestamp of a set, None of the empty set.
EarliestOf(stamps) ==
    IF stamps = {} THEN None ELSE CHOOSE t \in stamps : \A u \in stamps : StrLeq(t, u)

EarliestIn(first_seen, markets) == EarliestOf({p.ts : p \in {x \in Range(first_seen) : x.cc \in markets}})

LeadLag(lead_first, target_first) ==
    [lead_first |-> lead_first, target_first |-> target_first,
     has_lead |-> lead_first # None, has_target |-> target_first # None]

lead_lag(first_seen) ==
    LeadLag(EarliestIn(first_seen, LEAD_MARKETS), EarliestIn(first_seen, TARGET_MARKETS))

ValuesOf(rs, key) == [i \in 1..Len(rs) |-> rs[i][key]]

\* [r.get("entity_type") for r in c.queries if r.get("entity_type")]
EntityTypes(rs) ==
    ValuesOf(SelectSeq(rs, LAMBDA r : Truthy(DictGet(r, "entity_type", None))), "entity_type")

\* [r.get("entity_confidence") for r in c.queries if r.get("entity_confidence")]
EntityConfidences(rs) ==
    ValuesOf(SelectSeq(rs, LAMBDA r : "entity_confidence" \in DOMAIN r /\ r["entity_confidence"] # 0),
             "entity_confidence")

\* Counter(entity_types).most_common(1)[0][0] if entity_types else None
EntityType(entity_types) == IF entity_types = <<>> THEN None ELSE most_common(entity_types)[1]

\* round(n / d) to the nearest whole number, a half to the even one.
RoundHalfEven(n, d) ==
    IF 2 * (n % d) < d THEN n \div d
    ELSE IF 2 * (n % d) > d THEN (n \div d) + 1
    ELSE IF (n \div d) % 2 = 0 THEN n \div d
    ELSE (n \div d) + 1

\* round(sum(entity_confidences) / len(entity_confidences), 2) in thousandths,
\* the confidences being in tenths; None if there are none.
EntityConfidence(entity_confidences) ==
    IF entity_confidences = <<>> THEN None
    ELSE 10 * RoundHalfEven(10 * SumSeq(entity_confidences), Len(entity_confidences))

\* trend_dict for the cluster c whose rows are rs.
TrendDict(c, rs, first_seen) ==
    [trend |-> c.label,
     countries |-> c.countries,
     country_order |-> country_order(first_seen),
     first_seen |-> first_seen,
     lead_lag |-> lead_lag(first_seen),
     seed_count |-> Len(c.seeds),
     seeds |-> Take(c.seeds, 10),
     examples |-> Take(most_common([i \in 1..Len(rs) |-> normalize(DictGet(rs[i], "query", ""))]), 8),
     raw_count |-> Len(c.queries),
     entity_type |-> EntityType(EntityTypes(rs)),
     entity_confidence |-> EntityConfidence(EntityConfidences(rs))]

ClusterRows(all, c) == [i \in 1..Len(c.queries) |-> all[c.queries[i]]]

trend_dict(all, c) == TrendDict(c, ClusterRows(all, c), FirstSeen(ClusterRows(all, c)))

\* payload: one trend_dict per cluster.
Payload(all, cs) == [i \in 1..Len(cs) |-> trend_dict(all, cs[i])]

\* What export_clusters writes to trends.json at the time now.
export_clusters(all, cs, hmap, now) == Take(score_batch(Payload(all, cs), hmap, now), top_n)

-----------------------------------------------------------------------------
(* One extraction run in steps: run_extract loads the rows, clusters them   *)
(* and exports; another process does it again on the same raw file.        *)

\* Longest raw file the run is given.
MaxRows == 3

Record(query, country, seed, score, fetched_at) ==
    [type |-> "google_trends_rising", query |-> query, country |-> country, seed |-> seed,
     score |-> score, fetched_at |-> fetched_at]

\* Lines of data/raw/docs.jsonl: a query naming two ingredients, two soup
\* queries that are similar (100), a query with the soft stopwords "wat"
\* and "wat is" that is "soup bowl" or "soup is bowl" once stripped, the
\* first similar to "curry soup bowl" (100) and not to "curry soup" (61.5),
\* and a query that is one generic word.  The scores are numbers, a string
\* of digits, "Breakout" and a string float() rejects.
Records ==
    { Record("Kimchi  Gochujang Stew!", "KR", "google_trends", Str("Breakout"), "2026-03-02T00:00:00Z"),
      Record("curry soup", "GB", "google_trends", Num(60), "2026-02-20T00:00:00Z"),
      Record("curry soup bowl", None, "food_blog", Str("40"), "2026-03-05T00:00:00Z"),
      Record("Soup wat is bowl", "NL", "reddit_food", Str("n/a"), "2026-03-06T00:00:00Z"),
      Record("chocolate", "FR", "google_trends", Num(90), "2026-03-04T00:00:00Z") }

\* The raw files: at most MaxRows lines, no line twice.
RawFiles ==
    {s \in SeqsUpTo(Records, MaxRows) : \A i, j \in 1..Len(s) : s[i] = s[j] => i = j}

\* A raw file of one query seen in a lead market and, two days later, in a
\* target market.
GochujangWings ==
    << Record("gochujang wings", "US", "trending_searches", Num(100), "2026-01-01T00:00:00Z"),
       Record("gochujang wings", "NL", "trending_searches", Num(100), "2026-01-03T00:00:00Z") >>

\* That file with its lines in either order.
ExampleFiles == {GochujangWings, Reverse(GochujangWings)}

\* Raw files of one query seen in the US twice, the later time first, in NL
\* once and in KR on a line without a timestamp, in every line order.
RepeatRecords ==
    { Record("gochujang wings", "US", "trending_searches", Num(100), "2026-01-05T00:00:00Z"),
      Record("gochujang wings", "US", "trending_searches", Num(100), "2026-01-01T00:00:00Z"),
      Record("gochujang wings", "NL", "trending_searches", Num(100), "2026-01-03T00:00:00Z"),
      Record("gochujang wings", "KR", "trending_searches", Num(100), "") }

RepeatFiles ==
    {s \in [1..Cardinality(RepeatRecords) -> RepeatRecords] : \A i, j \in DOMAIN s : s[i] = s[j] => i = j}

\* Raw files of one query with local intent: two that name an ingredient,
\* one whose "near" is a soft stopword, one that names a venue.
LocalIntentFiles ==
    { <<Record(q, "US", "trending_searches", Num(100), "2026-01-01T00:00:00Z")>> :
        q \in {"kimchi near me", "gochujang restaurant", "ramen near me", "ramen restaurant"} }

\* A raw file of two records of one aggregation key, a record of another key
\* and a record that is dropped as generic.
MixedFile ==
    << Record("gochujang wings", "US", "trending_searches", Num(100), "2026-01-01T00:00:00Z"),
       Record("chocolate", "FR", "google_trends", Num(90), "2026-03-04T00:00:00Z"),
       Record("curry soup", "GB", "google_trends", Num(60), "2026-02-20T00:00:00Z"),
       Record("gochujang wings", "NL", "trending_searches", Num(100), "2026-01-03T00:00:00Z") >>

\* Raw files of one record seen in a market that breadth.py alone counts as
\* a lead market, and in a market that is neither lead nor target.
MarketFiles ==
    { <<Record("gochujang wings", cc, "trending_searches", Num(100), "2026-01-01T00:00:00Z")>> :
        cc \in {"CN", "BR"} }

\* A raw file of one query found under eleven seeds: ten search seeds and a
\* social seed that sorts after them.
SeedsFile ==
    [k \in 1..11 |->
        Record("gochujang wings", "US",
               IF k = 1 THEN "reddit_food" ELSE "google_trends_" \o Digit(k - 2),
               Num(100), "2026-01-01T00:00:00Z")]

valid_types == {"google_trends_rising", "reddit_trending", "food_blog_post", "menu_dish"}

\* load_trend_rows(): the parsed lines of an accepted type, for a file
\* whose every line is a JSON object.
load_trend_rows(docs) == SelectSeq(docs, LAMBDA obj : DictGet(obj, "type", None) \in valid_types)

\* A line of the raw file as json.loads sees it: an object, another JSON
\* value (an array, a number, null), or text json.loads rejects.
ObjectLine(obj) == [json |-> "object", value |-> obj]
OtherLine(json) == [json |-> json, value |-> <<>>]

\* obj.get("type") raises AttributeError: the line holds valid JSON that is
\* no object, and the call is outside the try.
LoadRaises(lines) == \E i \in 1..Len(lines) : lines[i].json \notin {"object", "invalid"}

\* The lines json.loads parses, those it rejects left out.
ObjectLines(lines) ==
    [i \in 1..Len(SelectSeq(lines, LAMBDA l : l.json = "object")) |->
        SelectSeq(lines, LAMBDA l : l.json = "object")[i].value]

\* What load_trend_rows() gives on a raw file of any lines: an
\* AttributeError or the rows.
LoadOutcome(lines) ==
    IF LoadRaises(lines) THEN [raised |-> TRUE]
    ELSE [raised |-> FALSE, rows |-> load_trend_rows(ObjectLines(lines))]

\* run_extract has loaded the rows of a raw file.
Loaded(docs) ==
    /\ trends_file = [exists |-> FALSE, json |-> <<>>]
    /\ history_dir = <<>>
    /\ last_call = NoCall
    /\ history_result = <<>>
    /\ history_map = <<>>
    /\ ConcIdle
    /\ docs_in = docs
    /\ rows = load_trend_rows(docs)
    /\ hash_seed \in HashSeeds
    /\ cq_pc = "collect"
    /\ cq_i = 1
    /\ agg = <<>>
    /\ clusters = <<>>
    /\ out = <<>>
    /\ first_run = NoRun
    /\ score_call = NoScoreCall

InitCluster ==
    \E docs \in RawFiles \cup ExampleFiles \cup RepeatFiles \cup LocalIntentFiles \cup {MixedFile}
                  \cup MarketFiles \cup {SeedsFile} :
        Loaded(docs)

\* The fallback: the query without the soft stopwords, if it is foody.
CollectFallback(q) ==
    IF q = "" \/ ~is_foody(q) THEN UNCHANGED <<rows, agg>>
    ELSE /\ agg' = AggAppend(agg, q, cq_i)
         /\ UNCHANGED rows

\* The row goes under its best entity, or else to the fallback.
CollectEntities(q, entities) ==
    IF entities # <<>>
    THEN /\ rows' = [rows EXCEPT ![cq_i] = WithEntity(@, MaxConfidence(entities))]
         /\ agg' = AggAppend(agg, normalize(MaxConfidence(entities).name), cq_i)
    ELSE CollectFallback(normalize(StripSoftStopwords(q, SetOrder(SOFT_STOPWORDS, hash_seed))))

\* The row of normalized query q: dropped when q is empty or generic.
CollectQuery(q) ==
    IF q = "" \/ should_skip_generic(q) THEN UNCHANGED <<rows, agg>>
    ELSE CollectEntities(q, extract_entities(q, hash_seed))

\* for r in rows: one pass of the loop body.
CollectRow ==
    /\ cq_pc = "collect"
    /\ cq_i <= Len(rows)
    /\ CollectQuery(normalize(DictGet(rows[cq_i], "query", "")))
    /\ cq_i' = cq_i + 1
    /\ UNCHANGED <<docs_in, hash_seed, cq_pc, clusters, out, first_run, storeVars, concVars, scoreVars>>

\* unique = list(agg.keys()); clusters = []
StartMerge ==
    /\ cq_pc = "collect"
    /\ cq_i > Len(rows)
    /\ cq_pc' = "merge"
    /\ cq_i' = 1
    /\ clusters' = <<>>
    /\ UNCHANGED <<docs_in, rows, hash_seed, agg, out, first_run, storeVars, concVars, scoreVars>>

\* The greedy step that names the cluster it merges into after the merged key.
MergeStep_relabel(cs, q) ==
    IF cs = <<>> THEN <<[label |-> q, members |-> <<q>>]>>
    ELSE IF AtLeast(rf_extract(q, MergeLabels(cs)).score, threshold)
    THEN [i \in 1..Len(cs) |->
             IF cs[i].label = rf_extract(q, MergeLabels(cs)).label
             THEN [label |-> q, members |-> Append(cs[i].members, q)] ELSE cs[i]]
    ELSE Append(cs, [label |-> q, members |-> <<q>>])

\* The greedy step for key q: the first cluster, a merge into the best
\* label, or a new cluster.
MergeStep(cs, q) ==
    IF cs = <<>> THEN <<[label |-> q, members |-> <<q>>]>>
    ELSE IF AtLeast(rf_extract(q, MergeLabels(cs)).score, threshold)
    THEN MergeInto(cs, rf_extract(q, MergeLabels(cs)).label, q)
    ELSE Append(cs, [label |-> q, members |-> <<q>>])

\* for q in unique: one pass of the loop body.
MergeKey ==
    /\ cq_pc = "merge"
    /\ cq_i <= Len(agg)
    /\ clusters' = MergeStep(clusters, AggKeys(agg)[cq_i])
    /\ cq_i' = cq_i + 1
    /\ UNCHANGED <<docs_in, rows, hash_seed, cq_pc, agg, out, first_run, storeVars, concVars, scoreVars>>

\* out = []
StartBuild ==
    /\ cq_pc = "merge"
    /\ cq_i > Len(agg)
    /\ cq_pc' = "build"
    /\ cq_i' = 1
    /\ out' = <<>>
    /\ UNCHANGED <<docs_in, rows, hash_seed, agg, clusters, first_run, storeVars, concVars, scoreVars>>

\* for label, members in clusters: one pass of the loop body.
BuildCluster ==
    /\ cq_pc = "build"
    /\ cq_i <= Len(clusters)
    /\ out' = Append(out, BuildTrendCluster(rows, agg, clusters[cq_i]))
    /\ cq_i' = cq_i + 1
    /\ UNCHANGED <<docs_in, rows, hash_seed, cq_pc, agg, clusters, first_run, storeVars, concVars, scoreVars>>

\* out.sort(...); return out
SortOut ==
    /\ cq_pc = "build"
    /\ cq_i > Len(clusters)
    /\ out' = SortedByScore(out)
    /\ cq_pc' = "done"
    /\ UNCHANGED <<docs_in, rows, hash_seed, cq_i, agg, clusters, first_run, storeVars, concVars, scoreVars>>

\* datetime.now(timezone.utc) when export_clusters scores.
ExportClock == {"2026-03-10T12:00:00Z"}

\* export_clusters(clusters): the history is loaded, the clusters are scored
\* and trends.json is written.
Export(now) ==
    /\ cq_pc = "done"
    /\ history_map' = load_all_histories(history_dir)
    /\ trends_file' = [exists |-> TRUE,
                       json |-> export_clusters(rows, out, load_all_histories(history_dir),
                                                Timestamp(now))]
    /\ last_call' = [op |-> "export_clusters", week |-> None, label |-> None]
    /\ history_result' = <<>>
    /\ cq_pc' = "exported"
    /\ UNCHANGED <<history_dir, docs_in, rows, hash_seed, cq_i, agg, clusters, out, first_run, concVars, scoreVars>>

\* Another process runs run_extract on the same raw file: the rows are loaded
\* again and the process has a hash seed of its own.
Rerun(h) ==
    /\ cq_pc = "exported"
    /\ ~first_run.has
    /\ first_run' = [has |-> TRUE, out |-> out]
    /\ rows' = load_trend_rows(docs_in)
    /\ hash_seed' = h
    /\ cq_pc' = "collect"
    /\ cq_i' = 1
    /\ agg' = <<>>
    /\ clusters' = <<>>
    /\ out' = <<>>
    /\ UNCHANGED <<docs_in, storeVars, concVars, scoreVars>>

NextCluster ==
    \/ CollectRow
    \/ StartMerge
    \/ MergeKey
    \/ StartBuild
    \/ BuildCluster
    \/ SortOut
    \/ \E now \in ExportClock : Export(now)
    \/ \E h \in HashSeeds : Rerun(h)

SpecCluster == InitCluster /\ [][NextCluster]_vars

\* A raw file of n queries no two of which are similar (at most 87.5), so
\* that a run makes n clusters.
FeedRecord(k) ==
    Record("ramen " \o Digit(k \div 10) \o Digit(k % 10), <<"US", "NL", "BR">>[(k % 3) + 1],
           "google_trends", Num(k), "2026-03-01T00:00:00Z")

Feed(n) == [k \in 1..n |-> FeedRecord(k)]

\* Runs that make one cluster less than, as many as and one more than
\* export_clusters keeps.
FeedSizes == {top_n - 1, top_n, top_n + 1}

InitExport == \E n \in FeedSizes : Loaded(Feed(n))

\* snapshot is called between extraction runs.
SnapshotRun(weekArg, now) == cq_pc = "exported" /\ Snapshot(weekArg, now)

NextExport ==
    \/ NextCluster
    \/ \E weekArg \in WeekArgs, now \in Clock : SnapshotRun(weekArg, now)

SpecExport == InitExport /\ [][NextExport]_vars

-----------------------------------------------------------------------------
(* The scoring and filter functions, one action per function: a           *)
(* collaborator calls one of them on an input and keeps what it returned.  *)

\* Longest history a trend is scored with.
MaxHistory == 3

\* raw_count values of snapshots: around a previous count of 10 they lie on
\* and next to every boundary of the velocity ladder.
RawCounts == {0, 9, 10, 11, 13, 14, 15, 16}

\* Snapshot rows of a history: with a raw_count, and one without.
HistoryRows == {[week |-> "2026_w9", raw_count |-> n] : n \in RawCounts} \cup {[week |-> "2026_w9"]}

Histories == SeqsUpTo(HistoryRows, MaxHistory)

\* The trend dict, as far as the scorer reads it; first_seen is a dict in
\* insertion order, a sequence of [cc, ts].
Trend(label, countries, first_seen, seeds, entity_type, entity_confidence) ==
    [trend |-> label, countries |-> countries, first_seen |-> first_seen, seeds |-> seeds,
     entity_type |-> entity_type, entity_confidence |-> entity_confidence]

\* Trends the functions are called on, the entity confidence in
\* thousandths: trends as export_clusters builds them (the confidence a
\* whole number of hundredths), of every entity type and of none, from no
\* country to a country set that fills every breadth sub-score, and two
\* trends built by another caller with a confidence of three decimals.
ScoreTrends ==
    { Trend("gochujang", <<"DE", "GB", "KR", "NL", "US">>,
            <<[cc |-> "KR", ts |-> "2026-03-05T00:00:00Z"], [cc |-> "NL", ts |-> "2026-03-09T00:00:00Z"]>>,
            <<"food_blog", "google_trends", "menu_resy", "reddit_food">>, "ingredient_variety", 850),
      Trend("dubai chocolate", <<"US">>, <<[cc |-> "US", ts |-> "2026-02-01T00:00:00Z"]>>,
            <<"google_trends">>, "branded_product", 1000),
      Trend("air fryer", <<"FR", "NL">>, <<[cc |-> "FR", ts |-> "2025-11-01T00:00:00Z"]>>,
            <<"google_trends", "trends_nl", "trends_fr">>, "equipment", 1000),
      Trend("frozen dumplings", <<"BR">>, <<[cc |-> "BR", ts |-> "not a date"]>>,
            <<"food_blog", "reddit_food">>, "product_format", 700),
      Trend("curry soup", <<>>, <<>>, <<>>, None, None),
      Trend("dinner recipe", <<"NL">>, <<[cc |-> "NL", ts |-> "2026-01-20T00:00:00Z"]>>,
            <<"google_trends">>, None, None),
      Trend("gochujang", <<"GB", "KR", "US", "NL", "DE">>,
            <<[cc |-> "US", ts |-> "2026-03-09T00:00:00Z"]>>, <<>>, "ingredient_variety", 105),
      Trend("kewpie mayo", <<"JP">>, <<[cc |-> "JP", ts |-> "2026-03-01T00:00:00Z"]>>,
            <<"google_trends">>, "branded_product", 335) }

\* The trends score_velocity is called on: one with entity metadata and one
\* without.
VelocityTrends == {t \in ScoreTrends : t.trend \in {"dubai chocolate", "curry soup"}}

\* The histories a whole trend is scored with.
ScoreHistories == {h \in Histories : Len(h) <= 2}

\* Longest list of trends score_batch is given.
MaxBatch == 3

\* The trends of a batch: four of five distinct totals, two of them under
\* one label.
BatchTrends ==
    {t \in ScoreTrends : t.trend \in {"gochujang", "curry soup", "dinner recipe", "air fryer"}}

\* The lists score_batch is given; a trend may come twice.
Batches == SeqsUpTo(BatchTrends, MaxBatch)

\* The history maps score_batch is given: an empty one, and maps with the
\* history of one or two of the labels.
HistoryMaps ==
    { <<>>,
      [l \in {"gochujang"} |-> <<[week |-> "2026_w9", raw_count |-> 10], [week |-> "2026_w9", raw_count |-> 16]>>],
      [l \in {"curry soup", "dinner recipe"} |->
          IF l = "curry soup" THEN <<[week |-> "2026_w9", raw_count |-> 0], [week |-> "2026_w9", raw_count |-> 9]>>
          ELSE <<[week |-> "2026_w9", raw_count |-> 16], [week |-> "2026_w9", raw_count |-> 10]>>] }

\* Country codes: the lead markets and the target markets of the scorer and
\* two markets that are neither.
Markets == {"US", "GB", "KR", "JP", "CN", "NL", "DE", "FR", "BR", "IN"}

\* The countries lists score_breadth is given: every set of markets as a
\* sorted list, and a list that names one market twice.
CountryLists == {SetOrder(S, 0) : S \in SUBSET Markets} \cup {<<"US", "NL", "US">>}

\* The first_seen values score_recency is given, for the clock of the
\* model (2026-03-10T12:00:00Z): of an age of 0, 7, 8, 14, 15, 30, 31, 60,
\* 61, 90 and 91 days, of seven days and 23 hours, a time to come, three
\* strings that are no timestamp and a timestamp without offset.
FirstSeenStamps ==
    { "2026-03-10T12:00:00Z", "2026-03-03T12:00:00Z", "2026-03-02T13:00:00Z", "2026-03-02T12:00:00Z",
      "2026-02-24T12:00:00Z", "2026-02-23T12:00:00Z", "2026-02-08T12:00:00Z", "2026-02-07T12:00:00Z",
      "2026-01-09T12:00:00Z", "2026-01-08T12:00:00Z", "2025-12-10T12:00:00Z", "2025-12-09T12:00:00Z",
      "2026-03-11T00:00:00Z", "not a date", "", "2026-02-30T00:00:00Z", "2026-03-05T00:00:00" }

\* The first_seen dicts: empty, of one country and of two.
FirstSeens ==
    {<<>>} \cup {<<[cc |-> "US", ts |-> t]>> : t \in FirstSeenStamps}
           \cup {<<[cc |-> "US", ts |-> t], [cc |-> "NL", ts |-> u]>> : t, u \in FirstSeenStamps}

\* The queries is_foody is given: of fewer than three characters, with food
\* hints, recipe and pantry words and none of them, with local intent and
\* with veto terms beside food hints, in capitals, and with white space at
\* the ends.
FoodyQueries ==
    { "", "ab", "  ", "ramen", "Ramen", " ramen ", "ramen recipe", "soup recipe", "recipe",
      "sauce", "curry sauce", "weather", "best ramen near me", "ramen restaurant",
      "Ramen In Amsterdam", "ramen in ab", "ramen in a", "ramen in a ", "ramen in  ",
      "best ramen recipe in town", "serum", "ramen serum", "Nike ramen", "gochujang paste",
      "chocolate", "menu", "kimchi menu ", "iphone" }

\* The queries the entity extraction is asked about: shorter than three
\* characters, without an entity, and with names several patterns produce.
EntityQueries ==
    { "", "ab", "Ki", "  a", "a b", "weather", "Dubai chocolate", "Kewpie mayo", "Miso soup",
      "Maldon salt", "frozen kimchi dumplings", "air fryer", "gochujang wings",
      "Dubai chocolate Dubai chocolate" }

\* Longest snapshot file the loaders are given line by line.
MaxFileLines == 2

\* The weeks of the snapshot files of such a directory.
HistoryWeeks == {"2026_w9", "2026_w10"}

\* The lines of the file of a week: the rows snapshot writes for two trends,
\* a row cut short, and a row cut inside a character.
HistoryLines(week) ==
    { JsonLine(snapshot_entry(week, [trend |-> "miso", raw_count |-> 3])),
      JsonLine(snapshot_entry(week, [trend |-> "tahini"])),
      Torn(JsonLine(snapshot_entry(week, [trend |-> "miso", raw_count |-> 3]))),
      Undecodable(JsonLine(snapshot_entry(week, [trend |-> "miso", raw_count |-> 3]))) }

\* The history directories: a file for each week, the earlier of any of its
\* lines, the later empty or of one line.
HistoryDirs ==
    {[f \in {snapshot_file(w) : w \in HistoryWeeks} |->
         IF f = snapshot_file("2026_w9") THEN a ELSE b] :
       a \in SeqsUpTo(HistoryLines("2026_w9"), MaxFileLines),
       b \in SeqsUpTo(HistoryLines("2026_w10"), 1)}

\* Longest raw file load_trend_rows is given line by line.
MaxLines == 3

\* The lines of such a file: a record of an accepted type, an object of
\* another type, text that is no JSON, an array, a number and null.
RawLines ==
    { ObjectLine(Record("curry soup", "GB", "google_trends", Num(60), "2026-02-20T00:00:00Z")),
      ObjectLine([type |-> "note", query |-> "curry soup"]),
      OtherLine("invalid"), OtherLine("array"), OtherLine("number"), OtherLine("null") }

RawLineFiles == SeqsUpTo(RawLines, MaxLines)

\* The history_map argument: left out (None), or a map.
HistoryMapArgs ==
    {[is_none |-> TRUE, map |-> <<>>]} \cup {[is_none |-> FALSE, map |-> m] : m \in HistoryMaps}

\* No scoring call has run: the store and the cluster engine are idle.
InitScore == Init

\* score_velocity(trend, history)
ScoreVelocity(trend, history) ==
    /\ score_call = NoScoreCall
    /\ score_call' = [op |-> "score_velocity", trend |-> trend, history |-> history,
                      result |-> score_velocity(trend, history)]
    /\ UNCHANGED <<storeVars, concVars, clusterVars>>

\* TrendScorer.score(trend, history), called at the time now
Score(trend, history, now) ==
    /\ score_call = NoScoreCall
    /\ score_call' = [op |-> "score", trend |-> trend, history |-> history,
                      result |-> TrendScorer_score(trend, history, Timestamp(now))]
    /\ UNCHANGED <<storeVars, concVars, clusterVars>>

\* TrendScorer.score_batch(trends, history_map), called at the time now:
\* if history_map is None: history_map = {}
ScoreBatch(trends, hmap, now) ==
    /\ score_call = NoScoreCall
    /\ score_call' = [op |-> "score_batch", trends |-> trends, history_map |-> hmap,
                      result |-> score_batch(trends, IF hmap.is_none THEN <<>> ELSE hmap.map,
                                             Timestamp(now))]
    /\ UNCHANGED <<storeVars, concVars, clusterVars>>

\* score_breadth(trend) for a trend of the given countries
ScoreBreadth(countries) ==
    /\ score_call = NoScoreCall
    /\ score_call' = [op |-> "score_breadth", countries |-> countries,
                      result |-> score_breadth(Trend("gochujang", countries, <<>>, <<>>, None, None))]
    /\ UNCHANGED <<storeVars, concVars, clusterVars>>

\* What a call of score_recency gives: a TypeError or a score.
RecencyOutcome(trend, now) ==
    IF RecencyRaises(trend) THEN [raised |-> TRUE]
    ELSE [raised |-> FALSE, value |-> score_recency(trend, Timestamp(now))]

\* score_recency(trend) for a trend of the given first_seen, called at the
\* time now
ScoreRecency(first_seen, now) ==
    /\ score_call = NoScoreCall
    /\ score_call' = [op |-> "score_recency", first_seen |-> first_seen, now |-> now,
                      result |-> RecencyOutcome(Trend("gochujang", <<>>, first_seen, <<>>, None, None), now)]
    /\ UNCHANGED <<storeVars, concVars, clusterVars>>

\* is_foody(query)
IsFoody(query) ==
    /\ score_call = NoScoreCall
    /\ score_call' = [op |-> "is_foody", query |-> query, result |-> is_foody(query)]
    /\ UNCHANGED <<storeVars, concVars, clusterVars>>

\* load_trend_rows() on a raw file of the given lines
LoadTrendRows(lines) ==
    /\ score_call = NoScoreCall
    /\ score_call' = [op |-> "load_trend_rows", lines |-> lines, result |-> LoadOutcome(lines)]
    /\ UNCHANGED <<storeVars, concVars, clusterVars>>

\* HistoryStore.load_history(trend_label) on a history directory of the
\* given files
LoadHistoryOf(dir, trend_label) ==
    /\ score_call = NoScoreCall
    /\ score_call' = [op |-> "load_history", dir |-> dir, label |-> trend_label,
                      result |-> HistoryOutcome(dir, trend_label)]
    /\ UNCHANGED <<storeVars, concVars, clusterVars>>

\* HistoryStore.load_all_histories() on a history directory of the given files
LoadAllHistoriesOf(dir) ==
    /\ score_call = NoScoreCall
    /\ score_call' = [op |-> "load_all_histories", dir |-> dir, result |-> AllHistoriesOutcome(dir)]
    /\ UNCHANGED <<storeVars, concVars, clusterVars>>

\* extract_entities(query) in the process with hash seed h
ExtractEntities(query, h) ==
    /\ score_call = NoScoreCall
    /\ score_call' = [op |-> "extract_entities", query |-> query, hash_seed |-> h,
                      result |-> extract_entities(query, h)]
    /\ UNCHANGED <<storeVars, concVars, clusterVars>>

NextScore ==
    \/ \E query \in EntityQueries, h \in HashSeeds : ExtractEntities(query, h)
    \/ \E trend \in VelocityTrends, history \in Histories : ScoreVelocity(trend, history)
    \/ \E trend \in ScoreTrends, history \in ScoreHistories, now \in ExportClock :
           Score(trend, history, now)
    \/ \E countries \in CountryLists : ScoreBreadth(countries)
    \/ \E query \in FoodyQueries : IsFoody(query)
    \/ \E lines \in RawLineFiles : LoadTrendRows(lines)
    \/ \E dir \in HistoryDirs, label \in {"miso", "tahini"} : LoadHistoryOf(dir, label)
    \/ \E dir \in HistoryDirs : LoadAllHistoriesOf(dir)
    \/ \E first_seen \in FirstSeens, now \in ExportClock : ScoreRecency(first_seen, now)
    \/ \E trends \in Batches, hmap \in HistoryMapArgs, now \in ExportClock :
           ScoreBatch(trends, hmap, now)

SpecScore == InitScore /\ [][NextScore]_vars

-----------------------------------------------------------------------------
(* Observations of the store used by the properties                        *)

\* Every row the store holds, as the loaders read it.
StoredRows(dir) == EntriesOf(dir, SortedSnapshotFiles(dir))

\* The rows the store holds for one week identifier.
WeekRows(dir, week) == SelectSeq(StoredRows(dir), LAMBDA e : e.week = week)

\* The week identifiers snapshot can be asked to write.
WeekIds == (WeekArgs \ {None}) \cup {strftime(now) : now \in Clock}

\* Week w has been written by a snapshot.
WeekWritten(dir, week) == snapshot_file(week) \in DOMAIN dir

\* The number of lines (file, index) of the store whose row has the label.
LabelCount(dir, label) ==
    Cardinality({fi \in {<<f, i>> : f \in DOMAIN dir, i \in 1..MaxTrends + 1} :
                    /\ fi[2] <= Len(dir[fi[1]])
                    /\ JsonOk(dir[fi[1]][fi[2]])
                    /\ dir[fi[1]][fi[2]].val.trend = label})

\* Every stored row with the label occurs in h as often as in the store.
SameRows(dir, label, h) ==
    /\ Len(h) = LabelCount(dir, label)
    /\ \A i \in 1..Len(h) : h[i].trend = label
    /\ \A f \in DOMAIN dir : \A i \in 1..Len(dir[f]) :
          (JsonOk(dir[f][i]) /\ dir[f][i].val.trend = label) =>
              Cardinality({k \in 1..Len(h) : h[k] = dir[f][i].val})
                  = Cardinality({g \in {<<f2, i2>> : f2 \in DOMAIN dir, i2 \in 1..MaxTrends + 1} :
                                    /\ g[2] <= Len(dir[g[1]])
                                    /\ dir[g[1]][g[2]] = dir[f][i]})

WeekOrdered(h) == \A i \in 1..(Len(h) - 1) : StrLeq(h[i].week, h[i + 1].week)

-----------------------------------------------------------------------------
(* Properties of the history store                                         *)

\* C1: once week w has been written, no later call changes the rows stored
\* for week w.
C1_SnapshotImmutable ==
    [][\A w \in WeekIds :
          (WeekWritten(history_dir, w) /\ WeekRows(history_dir, w) # <<>>)
              => WeekRows(history_dir', w) = WeekRows(history_dir, w)]_vars

\* C8: a snapshot of week w1 leaves the rows of every other week as they were.
C8_OtherWeeksUnchanged ==
    [][\A w2 \in WeekIds :
          (last_call'.op = "snapshot" /\ last_call'.week # w2)
              => WeekRows(history_dir', w2) = WeekRows(history_dir, w2)]_vars

\* C8 witness: the last call snapshotted one week while another week holds rows.
C8_Witness ==
    /\ last_call.op = "snapshot"
    /\ WeekRows(history_dir, last_call.week) # <<>>
    /\ \E w2 \in WeekIds : w2 # last_call.week /\ WeekRows(history_dir, w2) # <<>>

\* C9: load_history(label) returns exactly the stored rows with that label,
\* in non-decreasing lexical order of week identifier.
C9_LoadHistoryExactSorted ==
    last_call.op = "load_history" =>
        /\ SameRows(history_dir, last_call.label, history_result)
        /\ WeekOrdered(history_result)

\* C9 witness: a load returned rows of two weeks, the later-written file
\* holding the lexically smaller week.
C9_Witness ==
    /\ last_call.op = "load_history"
    /\ Len(history_result) >= 2
    /\ history_result[1].week # history_result[Len(history_result)].week

\* C10: load_all_histories maps every label to what load_history returns
\* for it, an absent label standing for the empty list.
C10_AllHistoriesAgree ==
    last_call.op = "load_all_histories" =>
        \A l \in Labels : MapGet(history_map, l) = load_history(history_dir, l)

-----------------------------------------------------------------------------
(* Observations of the cluster engine used by the properties               *)

\* cluster_queries has returned its clusters in out.
Returned == cq_pc \in {"done", "exported"}

\* How often input row i occurs in the member lists of the clusters o.
RECURSIVE Occurrences(_, _)
Occurrences(o, i) ==
    IF o = <<>> THEN 0
    ELSE Cardinality({k \in 1..Len(Head(o).queries) : Head(o).queries[k] = i})
             + Occurrences(Tail(o), i)

\* The fallback keeps a stripped query that is not empty and is foody.
KeptFallback(q) == q # "" /\ is_foody(q)

\* The collection loop keeps a normalized query that is not empty, is not
\* generic, and names an entity or passes the fallback.
KeptQuery(q, h) ==
    /\ q # ""
    /\ ~should_skip_generic(q)
    /\ \/ extract_entities(q, h) # <<>>
       \/ KeptFallback(normalize(StripSoftStopwords(q, SetOrder(SOFT_STOPWORDS, h))))

\* The collection loop keeps the record r.
Kept(r, h) == KeptQuery(normalize(DictGet(r, "query", "")), h)

\* The mapping from cluster label to member-record set.
ClusterMap(o) == {<<o[k].label, Range(o[k].queries)>> : k \in 1..Len(o)}

\* The similarity of key q to the primary label of cluster k.
Similarity(q, cs, k) == token_set_ratio(q, cs[k].label)

\* No cluster's primary label is more similar to q than that of cluster k.
IsBest(q, cs, k) == \A j \in 1..Len(cs) : ~RatLess(Similarity(q, cs, k), Similarity(q, cs, j))

\* cs2 is cs with q merged into cluster k and nothing else changed.
MergedInto(cs, cs2, q, k) ==
    /\ Len(cs2) = Len(cs)
    /\ \A j \in 1..Len(cs) :
          /\ cs2[j].label = cs[j].label
          /\ cs2[j].members = IF j = k THEN Append(cs[j].members, q) ELSE cs[j].members

\* cs2 is cs with a new cluster labelled q, holding q alone, at its end.
StartedNew(cs, cs2, q) == cs2 = Append(cs, [label |-> q, members |-> <<q>>])

\* The rows snapshot stored for week w that carry the label.
RowsOfLabel(dir, w, label) ==
    {i \in 1..Len(WeekRows(dir, w)) : WeekRows(dir, w)[i].trend = label}

-----------------------------------------------------------------------------
(* Properties of the cluster engine                                        *)

\* C3 as stated: when cluster_queries has returned, every record of the
\* input is in the member list of exactly one returned cluster.
C3_EveryRecordOnce ==
    cq_pc = "done" => \A i \in 1..Len(rows) : Occurrences(out, i) = 1

\* C3: when cluster_queries has returned, every record of the input that
\* the collection loop keeps (its normalized query is not empty, is not
\* generic, and names an entity or is foody once the soft stopwords are
\* stripped) is in the member list of exactly one returned cluster, and
\* every other record is in none.
C3_KeptRecordOnce ==
    cq_pc = "done" =>
        \A i \in 1..Len(rows) :
            Occurrences(out, i) = IF Kept(docs_in[i], hash_seed) THEN 1 ELSE 0

\* C3 witness: a run returned a cluster made of the rows of two merged keys
\* and dropped another record.
C3_Witness ==
    /\ cq_pc = "done"
    /\ \E k \in 1..Len(clusters) : Len(clusters[k].members) >= 2
    /\ \E k \in 1..Len(out) : Len(out[k].queries) >= 2
    /\ \E i \in 1..Len(rows) : ~Kept(docs_in[i], hash_seed) /\ Occurrences(out, i) = 0

\* C4: the labels of the clusters a run returns are pairwise distinct, and
\* no two entries of the exported trend list have the same trend label.
C4_LabelsDistinct ==
    /\ Returned => \A i, j \in 1..Len(out) : out[i].label = out[j].label => i = j
    /\ trends_file.exists =>
          \A i, j \in 1..Len(trends_file.json) :
              trends_file.json[i].trend = trends_file.json[j].trend => i = j

\* C4 witness: a run that merged a key into an existing cluster exported
\* two trends.
C4_Witness ==
    /\ cq_pc = "exported"
    /\ Len(trends_file.json) >= 2
    /\ \E k \in 1..Len(clusters) : Len(clusters[k].members) >= 2

\* C5: a second process that runs cluster_queries on the same records
\* returns the same mapping from cluster label to member-record set as the
\* first.
C5_Deterministic ==
    (first_run.has /\ Returned) => ClusterMap(out) = ClusterMap(first_run.out)

\* C6: a pass of the greedy loop over key q merges q iff its best similarity
\* against the primary labels of the clusters existing then is at least the
\* threshold, and then into a cluster of that best similarity; otherwise it
\* starts a new cluster labelled q.  Keys merged earlier play no part.
C6_GreedyMerge ==
    [][(cq_pc = "merge" /\ cq_pc' = "merge" /\ cq_i' = cq_i + 1) =>
          IF \E k \in 1..Len(clusters) :
                 AtLeast(Similarity(AggKeys(agg)[cq_i], clusters, k), threshold)
          THEN \E k \in 1..Len(clusters) :
                   /\ IsBest(AggKeys(agg)[cq_i], clusters, k)
                   /\ MergedInto(clusters, clusters', AggKeys(agg)[cq_i], k)
          ELSE StartedNew(clusters, clusters', AggKeys(agg)[cq_i])]_vars

\* C6 witness: the greedy loop has merged a key into one cluster and has
\* started another cluster for a key that was not similar enough.
C6_Witness ==
    /\ cq_pc = "merge"
    /\ Len(clusters) >= 2
    /\ \E k \in 1..Len(clusters) : Len(clusters[k].members) >= 2

\* C7: after a snapshot that follows an extraction run, every cluster the
\* run produced and scored has exactly one row in the snapshot's week.
C7_OneRowPerScoredTrend ==
    (cq_pc = "exported" /\ last_call.op = "snapshot") =>
        \A k \in 1..Len(out) :
            Cardinality(RowsOfLabel(history_dir, last_call.week, out[k].label)) = 1

\* The score of the record is neither numeric nor "breakout" in any case.
NoScore(r) ==
    /\ DictGet(r, "score", JNone).t # "num"
    /\ ~(DictGet(r, "score", JNone).t = "str" /\ FloatParses(DictGet(r, "score", JNone).v))
    /\ ~(DictGet(r, "score", JNone).t = "str" /\ Lower(DictGet(r, "score", JNone).v) = "breakout")

\* What the record adds to the mean as stated: 150 for "breakout", else its number.
StatedValue(r) ==
    IF r.score.t = "num" THEN r.score.v
    ELSE IF Lower(r.score.v) = "breakout" THEN 150 ELSE Number(Strip(r.score.v))

\* The rows of a cluster that have a score, by index.
Scoring(rs, queries) == SelectSeq(queries, LAMBDA i : ~NoScore(rs[i]))

\* The mean of the rows that have a score times the breadth multiplier over
\* the seeds and the countries of all the rows, as the fraction <<n, d>>.
StatedScore(rs, queries, scoring) ==
    << SumSeq([j \in 1..Len(scoring) |-> StatedValue(rs[scoring[j]])])
         * (4 + Max(0, Cardinality({DictGet(rs[queries[j]], "seed", None) : j \in 1..Len(queries)}) - 1))
         * (2 + Max(0, Cardinality({DictGet(rs[queries[j]], "country", None) : j \in 1..Len(queries)}) - 1)),
       8 * Max(1, Len(scoring)) >>

\* The cluster holds the row i, its country and its seed.
HoldsRow(c, r, i) ==
    /\ i \in Range(c.queries)
    /\ Truthy(DictGet(r, "country", None)) => DictGet(r, "country", None) \in Range(c.countries)
    /\ Truthy(DictGet(r, "seed", None)) => DictGet(r, "seed", None) \in Range(c.seeds)

\* C19: a kept record whose score is neither numeric nor "breakout" is a
\* member of its cluster, with its country and seed in the cluster's
\* countries and seeds, and every cluster's score is the mean of the scores
\* of its other records, "breakout" as 150, times the breadth multiplier
\* over the seeds and countries of all its records.
C19_NoScoreStillCounts ==
    cq_pc = "done" =>
        /\ \A i \in 1..Len(rows) :
              (NoScore(rows[i]) /\ Kept(docs_in[i], hash_seed)) =>
                  \E k \in 1..Len(out) : HoldsRow(out[k], rows[i], i)
        /\ \A k \in 1..Len(out) :
              out[k].score[1] * StatedScore(rows, out[k].queries, Scoring(rows, out[k].queries))[2]
                = StatedScore(rows, out[k].queries, Scoring(rows, out[k].queries))[1] * out[k].score[2]

\* C19 witness: a run returned a cluster of a record without a score and a
\* record with one, which score 40 * 1.25 * 1.5 = 75 together, and a
\* cluster whose one record scores "Breakout", 150.
C19_Witness ==
    /\ cq_pc = "done"
    /\ \E k \in 1..Len(out) :
          /\ Len(out[k].queries) = 2
          /\ \E i \in Range(out[k].queries) : NoScore(rows[i])
          /\ out[k].score[1] = 75 * out[k].score[2]
          /\ out[k].countries = <<"NL">>
          /\ out[k].seeds = <<"food_blog", "reddit_food">>
    /\ \E k \in 1..Len(out) :
          /\ Len(out[k].queries) = 1
          /\ rows[out[k].queries[1]].score = Str("Breakout")
          /\ out[k].score[1] = 150 * out[k].score[2]

\* C22: the two "gochujang wings" records, of the US on 2026-01-01 and of
\* NL on 2026-01-03, make exactly one cluster with the countries NL, US, and
\* its export has a lead market, a target market and the entity type
\* ingredient_variety.
C22_GochujangWings ==
    docs_in \in ExampleFiles =>
        /\ Returned => Len(out) = 1 /\ out[1].countries = <<"NL", "US">>
        /\ cq_pc = "exported" =>
              /\ Len(trends_file.json) = 1
              /\ trends_file.json[1].lead_lag.has_lead
              /\ trends_file.json[1].lead_lag.has_target
              /\ trends_file.json[1].entity_type = "ingredient_variety"

\* C22 witness: the run on the two records has exported its one cluster,
\* of both records.
C22_Witness ==
    /\ docs_in \in ExampleFiles
    /\ cq_pc = "exported"
    /\ Len(out) = 1
    /\ Len(out[1].queries) = 2
    /\ trends_file.json[1].raw_count = 2
    /\ trends_file.json[1].countries = <<"NL", "US">>

\* The clusters that hold key q.
ClustersOf(cs, q) == {k \in 1..Len(cs) : \E i \in 1..Len(cs[k].members) : cs[k].members[i] = q}

\* C24: during the greedy pass no step takes a cluster away, every cluster
\* keeps as label the first key it was created for, and every key that is in
\* a cluster stays in that cluster and in no other.
C24_MergesIrrevocable ==
    [][cq_pc = "merge" =>
          /\ Len(clusters') >= Len(clusters)
          /\ \A k \in 1..Len(clusters) :
                /\ clusters'[k].label = clusters[k].label
                /\ clusters[k].label = clusters[k].members[1]
                /\ clusters'[k].label = clusters'[k].members[1]
                /\ \A i \in 1..Len(clusters[k].members) :
                      /\ ClustersOf(clusters, clusters[k].members[i]) = {k}
                      /\ ClustersOf(clusters', clusters[k].members[i]) = {k}]_vars

\* C24 witness: the greedy pass is over the last key, after it made two
\* clusters and merged a later key into one of them.
C24_Witness ==
    /\ cq_pc = "merge"
    /\ cq_i > Len(agg)
    /\ Len(clusters) >= 2
    /\ \E k \in 1..Len(clusters) : Len(clusters[k].members) >= 2

\* The mean of the scores of the rows times the breadth multiplier over the
\* seeds and the countries the cluster exposes, as the fraction <<n, d>>.
ExposedScore(rs, c, scoring) ==
    << SumSeq([j \in 1..Len(scoring) |-> StatedValue(rs[scoring[j]])])
         * (4 + Max(0, Len(c.seeds) - 1)) * (2 + Max(0, Len(c.countries) - 1)),
       8 * Max(1, Len(scoring)) >>

\* C25: the score of every returned cluster is the mean of its scores times
\* (1 + 0.25 * max(0, |seeds| - 1)) * (1 + 0.5 * max(0, |countries| - 1)) over
\* the seeds and the countries of the TrendCluster; a record without a
\* country or a seed does not raise the multiplier.
C25_ScoreOverExposedSets ==
    cq_pc = "done" =>
        \A k \in 1..Len(out) :
            out[k].score[1] * ExposedScore(rows, out[k], Scoring(rows, out[k].queries))[2]
              = ExposedScore(rows, out[k], Scoring(rows, out[k].queries))[1] * out[k].score[2]

\* The countries of the member rows that carry a timestamp.
StampedCountries(rs, queries) ==
    {DictGet(rs[i], "country", None) :
        i \in {j \in Range(queries) : /\ Truthy(DictGet(rs[j], "country", None))
                                       /\ Truthy(DictGet(rs[j], "fetched_at", None))}}

\* The timestamps of the member rows of country cc.
MemberStamps(rs, queries, cc) ==
    {DictGet(rs[i], "fetched_at", None) :
        i \in {j \in Range(queries) : /\ DictGet(rs[j], "country", None) = cc
                                       /\ Truthy(DictGet(rs[j], "fetched_at", None))}}

\* The timestamp first_seen holds for country cc.
StampOf(first_seen, cc) == (CHOOSE p \in Range(first_seen) : p.cc = cc).ts

\* The trend t exported for the cluster c states first_seen, country_order
\* and lead_lag of the member rows of c.
FirstSeenAsStated(t, rs, c) ==
    /\ {p.cc : p \in Range(t.first_seen)} = StampedCountries(rs, c.queries)
    /\ \A i, j \in 1..Len(t.first_seen) : t.first_seen[i].cc = t.first_seen[j].cc => i = j
    /\ \A p \in Range(t.first_seen) :
          /\ p.ts \in MemberStamps(rs, c.queries, p.cc)
          /\ \A u \in MemberStamps(rs, c.queries, p.cc) : StrLeq(p.ts, u)
    /\ Len(t.country_order) = Len(t.first_seen)
    /\ Range(t.country_order) = {p.cc : p \in Range(t.first_seen)}
    /\ \A i, j \in 1..Len(t.country_order) :
          i < j => StrLeq(StampOf(t.first_seen, t.country_order[i]),
                          StampOf(t.first_seen, t.country_order[j]))
    /\ Range(t.country_order) \subseteq Range(c.countries)
    /\ t.lead_lag.has_lead <=> \E p \in Range(t.first_seen) : p.cc \in {"US", "GB", "KR", "JP"}
    /\ t.lead_lag.has_target <=> \E p \in Range(t.first_seen) : p.cc \in {"NL", "DE", "FR"}

\* C26: every exported trend maps each country that has a member record with
\* a timestamp to the smallest fetched_at of that country's member records;
\* country_order is a permutation of those countries by non-decreasing
\* first_seen, of countries of the cluster only; has_lead (has_target) is
\* true iff one of them is a lead (target) market.
C26_FirstSeenAndOrder ==
    cq_pc = "exported" =>
        \A n \in 1..Len(trends_file.json) : \A k \in 1..Len(out) :
            out[k].label = trends_file.json[n].trend =>
                FirstSeenAsStated(trends_file.json[n], rows, out[k])

\* C26 witness: an exported trend whose first US record is later than its
\* second, with a KR record that has no timestamp: first_seen holds the
\* earlier US time, and the order is US, NL without KR.
C26_Witness ==
    /\ cq_pc = "exported"
    /\ docs_in \in RepeatFiles
    /\ DictGet(docs_in[1], "fetched_at", None) = "2026-01-05T00:00:00Z"
    /\ trends_file.json[1].country_order = <<"US", "NL">>
    /\ trends_file.json[1].countries = <<"KR", "NL", "US">>
    /\ StampOf(trends_file.json[1].first_seen, "US") = "2026-01-01T00:00:00Z"

\* C27: no record whose normalized query has local or venue intent is a
\* member of a cluster cluster_queries returns, on the entity path or on the
\* fallback path.
C27_LocalIntentDropped ==
    Returned =>
        \A i \in 1..Len(rows) :
            LocalIntent(normalize(DictGet(rows[i], "query", ""))) => Occurrences(out, i) = 0

\* The clusters whose member list holds input row i.
HoldersOf(o, i) == {k \in 1..Len(o) : i \in Range(o[k].queries)}

\* C28: the member lists of the returned clusters partition the accepted
\* records: no record is in two clusters or twice in one, the records under
\* one aggregation key of agg are in one cluster, a record is in a cluster
\* iff it was not dropped (empty normalized query, generic query, fallback
\* query not food-relevant), and the member counts sum to the number of the
\* records that are in a cluster, which are the accepted ones.
C28_MembersPartitionAccepted ==
    cq_pc = "done" =>
        /\ \A i \in 1..Len(rows) :
              /\ Occurrences(out, i) <= 1
              /\ HoldersOf(out, i) # {} <=> Kept(docs_in[i], hash_seed)
        /\ \A n \in 1..Len(agg) : \A i, j \in Range(agg[n].rows) :
              HoldersOf(out, i) = HoldersOf(out, j)
        /\ SumSeq([k \in 1..Len(out) |-> Len(out[k].queries)])
              = Cardinality({i \in 1..Len(rows) : HoldersOf(out, i) # {}})

\* C28 witness: a run returned two clusters, one of them of two records of
\* one aggregation key, and dropped a record.
C28_Witness ==
    /\ cq_pc = "done"
    /\ Len(out) = 2
    /\ \E i \in 1..Len(rows) : HoldersOf(out, i) = {}
    /\ \E n \in 1..Len(agg) : Len(agg[n].rows) = 2

\* The lead-market sub-score score_breadth awards to the trend, in hundredths.
LeadSubScore(trend) ==
    BreadthOf(1, Cardinality(Range(trend.countries) \cap breadth_LEAD_MARKETS), 0) - BreadthOf(1, 0, 0)

\* Every member row of the cluster carries a country and a fetched_at.
AllStamped(rs, queries) ==
    \A i \in Range(queries) :
        Truthy(DictGet(rs[i], "country", None)) /\ Truthy(DictGet(rs[i], "fetched_at", None))

\* C29: for every exported trend whose member records all carry a country
\* and a fetched_at, score_breadth awards a lead-market sub-score that is
\* not zero iff lead_lag.has_lead is true.
C29_LeadMarketsAgree ==
    cq_pc = "exported" =>
        \A n \in 1..Len(trends_file.json) : \A k \in 1..Len(out) :
            (out[k].label = trends_file.json[n].trend /\ AllStamped(rows, out[k].queries)) =>
                (LeadSubScore(trends_file.json[n]) > 0 <=> trends_file.json[n].lead_lag.has_lead)

\* C30: the diversity score of every exported trend is the diversity ladder
\* over all the seeds of its cluster, however many they are.
C30_DiversityOfAllSeeds ==
    cq_pc = "exported" =>
        \A n \in 1..Len(trends_file.json) : \A k \in 1..Len(out) :
            out[k].label = trends_file.json[n].trend =>
                trends_file.json[n].score_breakdown.diversity = DiversityOfSeeds(out[k].seeds)

-----------------------------------------------------------------------------
(* Properties of the scorer and the filters                                *)

\* The raw_count of the snapshot k places from the end of history h.
CountFromEnd(h, k) == DictGet(h[Len(h) - k], "raw_count", 0)

\* The velocity the ladder gives for the counts c (last snapshot) and p
\* (the one before), in hundredths.
VelocityLadder(c, p) ==
    IF p = 0 THEN (IF c > 0 THEN 400 ELSE 0)
    ELSE IF 2 * (c - p) > p THEN 500
    ELSE IF 10 * (c - p) > 3 * p THEN 400
    ELSE IF 10 * (c - p) > p THEN 300
    ELSE IF c > p THEN 200
    ELSE IF 10 * (c - p) > -p THEN 100
    ELSE 50

\* C11: score_velocity is 2.5 for a history of fewer than 2 snapshots, and
\* otherwise the value of the ladder for the raw_count of the last two
\* snapshots (previous count 0 or positive), whatever the trend.
C11_VelocityLadder ==
    score_call.op = "score_velocity" =>
        score_call.result =
            IF Len(score_call.history) < 2 THEN 250
            ELSE VelocityLadder(CountFromEnd(score_call.history, 0), CountFromEnd(score_call.history, 1))

\* C11 witness: a history of three snapshots whose last count is exactly 30%
\* above the one before was scored 3.0.
C11_Witness ==
    /\ score_call.op = "score_velocity"
    /\ Len(score_call.history) = 3
    /\ CountFromEnd(score_call.history, 1) = 10
    /\ CountFromEnd(score_call.history, 0) = 13
    /\ score_call.result = 300

\* The sum of the five values of a breakdown.
BreakdownSum(b) == b.recency + b.breadth + b.velocity + b.specificity + b.diversity

\* C12: the total TrendScorer.score returns is the sum of the five rounded
\* values of the breakdown it returns with it.
C12_TotalIsSum ==
    score_call.op = "score" => score_call.result.total = BreakdownSum(score_call.result.breakdown)

\* The trend has the entity export_clusters gives: none, or one with a
\* confidence that is a mean of confidences in (0, 1] rounded to hundredths.
PipelineTrend(trend) ==
    \/ trend.entity_type = None
    \/ trend.entity_confidence \in 1..1000 /\ trend.entity_confidence % 10 = 0

\* C13: for a trend as the pipeline produces it and any history, each of
\* the five breakdown values lies in [0, 5] and the total in [0, 25].
C13_ScoresInRange ==
    (score_call.op = "score" /\ PipelineTrend(score_call.trend)) =>
        /\ \A k \in DOMAIN score_call.result.breakdown : score_call.result.breakdown[k] \in 0..500
        /\ score_call.result.total \in 0..2500

\* C13 witness: a pipeline trend was scored 5.0 for recency, breadth,
\* velocity and diversity, and more than 24 in total.
C13_Witness ==
    /\ score_call.op = "score"
    /\ PipelineTrend(score_call.trend)
    /\ score_call.result.breakdown.recency = 500
    /\ score_call.result.breakdown.breadth = 500
    /\ score_call.result.breakdown.velocity = 500
    /\ score_call.result.breakdown.diversity = 500
    /\ score_call.result.total > 2400

\* The trend dict without the two keys score_batch adds.
Unscored(t) == [k \in DOMAIN t \ {"score", "score_breakdown"} |-> t[k]]

\* How often the trend t is in the list of trends ts, scoring keys aside.
TimesIn(t, ts) == Cardinality({i \in 1..Len(ts) : Unscored(ts[i]) = t})

\* C14: score_batch returns every input trend exactly once, in
\* non-increasing order of the total attached as "score".
C14_BatchKeepsAllSorted ==
    score_call.op = "score_batch" =>
        /\ Len(score_call.result) = Len(score_call.trends)
        /\ \A t \in BatchTrends : TimesIn(t, score_call.result) = TimesIn(t, score_call.trends)
        /\ \A i \in 1..Len(score_call.result) :
              {"score", "score_breakdown"} \subseteq DOMAIN score_call.result[i]
        /\ \A i, j \in 1..Len(score_call.result) :
              i < j => score_call.result[i].score >= score_call.result[j].score

\* C14 witness: a batch of three trends, one of them twice and the last the
\* one of the highest total, was scored with a history map.
C14_Witness ==
    /\ score_call.op = "score_batch"
    /\ Len(score_call.trends) = 3
    /\ score_call.trends[1] = score_call.trends[2]
    /\ score_call.history_map.map # <<>>
    /\ Unscored(score_call.result[1]) = score_call.trends[3]
    /\ score_call.result[1].score > score_call.result[2].score

\* The breadth score as stated: min(5.0, M + L + T) for the market count,
\* the lead markets US, GB, KR, JP and the target markets NL, DE, FR.
StatedBreadth(countries) ==
    Min(500,
        (IF Cardinality(countries) >= 5 THEN 200 ELSE IF Cardinality(countries) >= 3 THEN 150
         ELSE IF Cardinality(countries) >= 2 THEN 100 ELSE 50)
        + (IF Cardinality(countries \cap {"US", "GB", "KR", "JP"}) >= 3 THEN 200
           ELSE IF Cardinality(countries \cap {"US", "GB", "KR", "JP"}) >= 2 THEN 150
           ELSE IF Cardinality(countries \cap {"US", "GB", "KR", "JP"}) >= 1 THEN 100 ELSE 0)
        + (IF Cardinality(countries \cap {"NL", "DE", "FR"}) >= 2 THEN 100
           ELSE IF Cardinality(countries \cap {"NL", "DE", "FR"}) >= 1 THEN 50 ELSE 0))

\* C15: for every country set, the empty one included, score_breadth is
\* min(5.0, M + L + T) with the lead markets US, GB, KR, JP.
C15_BreadthAsStated ==
    score_call.op = "score_breadth" => score_call.result = StatedBreadth(Range(score_call.countries))

\* C16: score_breadth is monotonic in the country set: no subset of the
\* countries of a call scores more than the call.
C16_BreadthMonotonic ==
    score_call.op = "score_breadth" =>
        \A A \in SUBSET Range(score_call.countries) :
            score_breadth([countries |-> SetOrder(A, 0)]) <= score_call.result

\* C16 witness: a set of six countries was scored below the cap, and
\* taking one country away from it lowers the score.
C16_Witness ==
    /\ score_call.op = "score_breadth"
    /\ Len(score_call.countries) = 6
    /\ score_call.result < 500
    /\ \E cc \in Range(score_call.countries) :
          score_breadth([countries |-> SetOrder(Range(score_call.countries) \ {cc}, 0)])
              < score_call.result

\* The first_seen timestamps fromisoformat parses, as seconds.
Parseable(first_seen) ==
    {Timestamp(IF IsNaiveIso(x.ts) THEN x.ts \o "Z" ELSE x.ts) :
        x \in {y \in Range(first_seen) : IsIso(y.ts) \/ IsNaiveIso(y.ts)}}

\* The step function of the age in whole days, as stated.
StatedRecency(age) ==
    IF age <= 7 THEN 500 ELSE IF age <= 14 THEN 400 ELSE IF age <= 30 THEN 300
    ELSE IF age <= 60 THEN 200 ELSE IF age <= 90 THEN 100 ELSE 50

\* C17: with a parseable first_seen timestamp score_recency is the step
\* function of the age in whole days of the earliest one (5.0, 4.0, 3.0,
\* 2.0, 1.0, 0.5 at the boundaries 7, 14, 30, 60, 90), and 0.0 with none.
C17_RecencyLadder ==
    score_call.op = "score_recency" =>
        /\ ~score_call.result.raised
        /\ score_call.result.value =
              IF Parseable(score_call.first_seen) = {} THEN 0
              ELSE StatedRecency(AgeDays(Parseable(score_call.first_seen), Timestamp(score_call.now)))

\* The local-intent pattern, which ignores case, matches q.
LocalVeto(q) == LocalIntent(Lower(q))

\* A non-food veto term occurs in q, in any case.
NonFoodVeto(q) == \E v \in NONFOOD_VETO : Contains(Lower(q), v)

\* C18: is_foody(q) is false whenever the local-intent pattern matches q or
\* a non-food veto term occurs in q; for a q of three characters or more
\* with neither, is_foody(q) is true iff food_intent_score(q) >= 2.
C18_FoodyVetoes ==
    score_call.op = "is_foody" =>
        /\ (LocalVeto(score_call.query) \/ NonFoodVeto(score_call.query)) => ~score_call.result
        /\ (/\ Len(score_call.query) >= 3
            /\ ~LocalVeto(score_call.query)
            /\ ~NonFoodVeto(score_call.query)) =>
               (score_call.result <=> food_intent_score(score_call.query) >= 2)

\* The line parses as a record: a JSON object.
RecordShaped(l) == l.json = "object"

\* The objects of an accepted type among the lines that parse as a record.
StatedRows(lines) ==
    [i \in 1..Len(SelectSeq(lines, LAMBDA l : RecordShaped(l) /\ DictGet(l.value, "type", None) \in valid_types)) |->
        SelectSeq(lines, LAMBDA l : RecordShaped(l) /\ DictGet(l.value, "type", None) \in valid_types)[i].value]

\* C20: loading the raw records skips every line that is invalid JSON or
\* valid JSON that is no object, loads the remaining lines, and does not fail.
C20_BadLinesSkipped ==
    score_call.op = "load_trend_rows" =>
        /\ ~score_call.result.raised
        /\ score_call.result.rows = StatedRows(score_call.lines)

\* How many well-formed rows of the label the files of the directory hold.
WellFormedRows(dir, label) ==
    Cardinality({<<f, i>> \in (DOMAIN dir) \X (1..MaxFileLines + 1) :
                    i <= Len(dir[f]) /\ dir[f][i].kind = "json" /\ dir[f][i].val.trend = label})

\* The history holds the well-formed rows of the label of every file, each once.
AllWellFormed(dir, label, history) ==
    /\ Len(history) = WellFormedRows(dir, label)
    /\ \A f \in DOMAIN dir : \A i \in 1..Len(dir[f]) :
          (dir[f][i].kind = "json" /\ dir[f][i].val.trend = label) =>
              Cardinality({k \in 1..Len(history) : history[k] = dir[f][i].val})
                = Cardinality({<<g, j>> \in (DOMAIN dir) \X (1..MaxFileLines + 1) :
                                  j <= Len(dir[g]) /\ dir[g][j] = dir[f][i]})

\* C21: the history loaders skip each unparseable line and still return
\* every well-formed row of the same file and of the other week files.
C21_BadRowsSkipped ==
    /\ score_call.op = "load_history" =>
          /\ ~score_call.result.raised
          /\ AllWellFormed(score_call.dir, score_call.label, score_call.result.rows)
    /\ score_call.op = "load_all_histories" =>
          /\ ~score_call.result.raised
          /\ \A label \in {"miso", "tahini"} :
                AllWellFormed(score_call.dir, label, MapGet(score_call.result.map, label))

\* The pattern hits of the query of the call, before the deduplication.
HitsOfCall == PatternHits(score_call.query, Strip(Lower(score_call.query)), score_call.hash_seed)

\* C23: extract_entities returns no name twice, each returned name with the
\* highest confidence among the pattern hits of that name, and nothing for a
\* query shorter than three characters.
C23_DistinctNamesMaxConfidence ==
    score_call.op = "extract_entities" =>
        /\ \A i, j \in 1..Len(score_call.result) :
              score_call.result[i].name = score_call.result[j].name => i = j
        /\ Len(score_call.query) >= 3 =>
              /\ {e.name : e \in Range(score_call.result)} = {e.name : e \in Range(HitsOfCall)}
              /\ \A e \in Range(score_call.result) :
                    /\ e \in Range(HitsOfCall)
                    /\ \A hit \in Range(HitsOfCall) :
                          hit.name = e.name => hit.confidence <= e.confidence
        /\ Len(score_call.query) < 3 => score_call.result = <<>>

\* A call whose patterns produced one name with two confidences.
C23_Witness ==
    /\ score_call.op = "extract_entities"
    /\ \E a, b \in Range(HitsOfCall) : a.name = b.name /\ a.confidence > b.confidence

====
